---------------------------- MODULE Spec2Model ----------------------------
(***************************************************************************)
(* Model of the distributed rate limiter (AndySung320/rate-limiter).       *)
(*                                                                         *)
(* The store (Redis) holds one JSON value per bucket key.  The two Lua     *)
(* scripts of internal/storage/tokenbucket.lua (single bucket, lines 1-42, *)
(* and dual bucket, lines 43-124) read, refill, debit and write back the   *)
(* buckets; Redis runs a script to completion before anything else, so one *)
(* script execution is one action.  The Go side (handler.go, redis.go)     *)
(* validates the request, composes the keys, reads the wall clock and      *)
(* sends the script; between reading the clock and the execution of the    *)
(* script other requests may run.                                          *)
(*                                                                         *)
(* Units.  Time is in milliseconds, as in the code.  Lua keeps tokens as a *)
(* real number: (now - last_refill) / 1000 * refill_rate.  With integer    *)
(* milliseconds and integer rates every token value is a multiple of       *)
(* 1/1000, so the model stores tokens in thousandths of a token (exact     *)
(* arithmetic; binary floating-point rounding is not modelled).            *)
(***************************************************************************)
EXTENDS Integers, Sequences, FiniteSets, TLC

\* ------------------------------------------------------------------ bounds

\* Number of concurrent request handlers (goroutines serving /check).
NProcs == 2
\* Total number of requests served in one behaviour.
MaxRequests == 3
\* Number of clock ticks in one behaviour.
MaxTicks == 2
\* Milliseconds per clock tick.
TickMs == 500
\* Policy numbers of the catalog under test (the tests' 100/10/10 scaled down).
FreeCapacity == 2
FreeRefillRate == 1
EndpointCost == 1
\* Largest value of a numeric field in the rule sets given to ValidateRuleSet.
MaxField == 1
MaxIdles == 3
MaxWaits == 3

\* --------------------------------------------------------------- constants

\* tokenbucket.lua divides milliseconds by 1000; tokens are kept in 1/Scale.
Scale == 1000
\* time.Hour, as int(ttl.Seconds()).
TtlSeconds == 3600

Min(a, b) == IF a < b THEN a ELSE b

\* ----------------------------------------------------------------- catalog

\* config.RuleSet: the policy the handler runs with.
Rules ==
  [ Tiers |-> [ free |-> [Capacity |-> FreeCapacity, RefillRate |-> FreeRefillRate],
                pro  |-> [Capacity |-> FreeCapacity + 1, RefillRate |-> FreeRefillRate + 1] ],
    Endpoints |->
      [ test  |-> [Rule |-> "tiers+endpoints", Cost |-> EndpointCost,
                   GlobalCapacity |-> 10 * FreeCapacity, GlobalRefillRate |-> 10 * FreeRefillRate],
        tight |-> [Rule |-> "tiers+endpoints", Cost |-> EndpointCost,
                   GlobalCapacity |-> EndpointCost, GlobalRefillRate |-> FreeRefillRate],
        ip    |-> [Rule |-> "IP+endpoints", Cost |-> EndpointCost,
                   GlobalCapacity |-> 10 * FreeCapacity, GlobalRefillRate |-> 10 * FreeRefillRate],
        list  |-> [Rule |-> "endpoint", Cost |-> EndpointCost + 1,
                   GlobalCapacity |-> FreeCapacity + 1, GlobalRefillRate |-> FreeRefillRate],
        bulk  |-> [Rule |-> "endpoint", Cost |-> EndpointCost,
                   GlobalCapacity |-> 2 * FreeCapacity, GlobalRefillRate |-> FreeRefillRate] ],
    IPs |-> [Capacity |-> 5 * FreeCapacity, RefillRate |-> 5 * FreeRefillRate] ]

\* The policy file after an operator has lowered one capacity; the service
\* loads it at its next start (main calls LoadRuleSet), the store keeps the
\* buckets written under the old policy until they expire.
EditedRules ==
  [Rules EXCEPT !.Endpoints.bulk.GlobalCapacity = FreeCapacity]

\* Request handlers, and the service instance each runs in: handler 1 in
\* instance 1, the others in instance 2.  Both instances connect to one store.
Procs == 1..NProcs
Instances == {1, 2}
InstanceOf(p) == IF p = 1 THEN 1 ELSE 2

\* Instances that each connect to a store of their own.
ConnAddrOwnStore(inst) == IF inst = 1 THEN "localhost:6379" ELSE "localhost:6380"

\* The store address an instance's NewRedisStorage connects to: every instance
\* is given the same address.
StoreAddr == "localhost:6379"
ConnAddr(inst) == "localhost:6379"
Addrs == {ConnAddr(i) : i \in Instances} \cup {StoreAddr}

\* api.CheckRequest values the clients send.  A behaviour serves one of these
\* populations: one caller on an endpoint whose global bucket is large, and on
\* the endpoint-only endpoint; two callers that share the small global bucket
\* of one endpoint; one caller served across a restart of the service with an
\* edited policy file; a caller whose requests name no tier, an unknown tier,
\* no endpoint of the catalog or no IP address, next to a valid request; or
\* one caller who comes back after more than the expiry time of the buckets.
OneCaller ==
       [key : {"u1"}, endpoint : {"test"}, user_tier : {"free"}, ip_address : {""}]
  \cup [key : {"u1"}, endpoint : {"list"}, user_tier : {""}, ip_address : {""}]
TwoCallers ==
  [key : {"u1", "u2"}, endpoint : {"tight"}, user_tier : {"free"}, ip_address : {""}]
AcrossRestart ==
  [key : {"u1"}, endpoint : {"bulk"}, user_tier : {""}, ip_address : {""}]
Malformed ==
       [key : {"u1"}, endpoint : {"test"}, user_tier : {"", "gold", "free"}, ip_address : {""}]
  \cup [key : {"u1"}, endpoint : {"nope", "ip"}, user_tier : {""}, ip_address : {""}]
OverAnHour ==
  [key : {"u1"}, endpoint : {"test"}, user_tier : {"pro"}, ip_address : {""}]
Populations == {OneCaller, TwoCallers, AcrossRestart, Malformed, OverAnHour}

\* The requests served while the store connection, the script cache of the
\* store and the replies are unreliable: one on the IP+endpoints endpoint, one
\* on an endpoint-only endpoint.
Unreliable ==
       [key : {"u1"}, endpoint : {"ip"}, user_tier : {""}, ip_address : {"10.0.0.1"}]
  \cup [key : {"u1"}, endpoint : {"list"}, user_tier : {""}, ip_address : {""}]
Requests == UNION Populations \cup Unreliable

\* ------------------------------------------------------- dispatch (Go side)

\* A store key without the prefix.
bucketKeyBare(key) == key

\* RedisStorage.bucketKey: the store key of a composed key.
bucketKey(key) == "rate_limit:bucket:" \o key

\* The keys CheckHandler composes with fmt.Sprintf.
GlobalKeyOf(req) == "global:" \o req.endpoint
UserKeyOf(req) == "user:" \o req.key \o ":" \o req.endpoint \o ":" \o req.user_tier
IpKeyOf(req) == "ip:" \o req.ip_address \o ":" \o req.endpoint
EndpointKeyBare(req) == req.endpoint
EndpointKeyOf(req) == "endpoint:" \o req.endpoint

\* Every store key a request of Requests can name.
AllKeys ==
  UNION { { bucketKey(GlobalKeyOf(r)), bucketKey(UserKeyOf(r)),
            bucketKey(IpKeyOf(r)), bucketKey(EndpointKeyOf(r)) } : r \in Requests }

\* ------------------------------------------------------------ store values

\* redis.call('GET', key) on a key that was never written (or has expired).
Absent == [kind |-> "absent"]

\* The value written by the single-bucket script: fields tokens, last_refill,
\* capacity, refill_rate; ex is the EX argument of the SET.
SingleState(tokens, last_refill, capacity, refill_rate, ttl) ==
  [kind |-> "single", tokens |-> tokens, last_refill |-> last_refill,
   capacity |-> capacity, refill_rate |-> refill_rate, ex |-> ttl]

\* The value the dual-bucket script writes at KEYS[1]: fields user_tokens, ...
UserState(tokens, last_refill, capacity, refill_rate, ttl) ==
  [kind |-> "user", tokens |-> tokens, last_refill |-> last_refill,
   capacity |-> capacity, refill_rate |-> refill_rate, ex |-> ttl]

\* The value the dual-bucket script writes at KEYS[2]: fields global_tokens, ...
GlobalState(tokens, last_refill, capacity, refill_rate, ttl) ==
  [kind |-> "global", tokens |-> tokens, last_refill |-> last_refill,
   capacity |-> capacity, refill_rate |-> refill_rate, ex |-> ttl]

\* A script that raised an error (a comparison with nil): nothing was written.
ScriptError == <<"error">>

\* math.floor of a token value kept in 1/Scale.
Floor(tokens) == tokens \div Scale

\* An absent bucket taken as empty.
LoadStateEmpty(state, capacity, now) ==
  IF state # Absent
  THEN [tokens |-> state.tokens, last_refill |-> state.last_refill]
  ELSE [tokens |-> 0, last_refill |-> now]

\* Lines 9-17 (and 60-74): the bucket a script starts from: the decoded
\* tokens and last_refill of the stored value, or a full bucket dated now.
LoadState(state, capacity, now) ==
  IF state # Absent
  THEN [tokens |-> state.tokens, last_refill |-> state.last_refill]
  ELSE [tokens |-> capacity * Scale, last_refill |-> now]

\* -------------------------------------------------- single-bucket script

\* Refill that credits whole tokens only (the fraction of a token is dropped).
RefillWholeTokens(tokens, last_refill, capacity, refill_rate, now) ==
  IF tokens < capacity * Scale
  THEN LET tokens_to_add == (((now - last_refill) * refill_rate) \div Scale) * Scale
       IN  IF tokens_to_add > 0
           THEN [tokens |-> Min(capacity * Scale, tokens + tokens_to_add), last_refill |-> now]
           ELSE [tokens |-> tokens, last_refill |-> last_refill]
  ELSE [tokens |-> tokens, last_refill |-> last_refill]

\* Refill that adds the tokens and leaves the date of the bucket as it was.
RefillUndated(tokens, last_refill, capacity, refill_rate, now) ==
  IF tokens < capacity * Scale
  THEN LET tokens_to_add == (now - last_refill) * refill_rate
       IN  IF tokens_to_add > 0
           THEN [tokens |-> Min(capacity * Scale, tokens + tokens_to_add),
                 last_refill |-> last_refill]
           ELSE [tokens |-> tokens, last_refill |-> last_refill]
  ELSE [tokens |-> tokens, last_refill |-> last_refill]

\* Lines 19-26: lazy refill of the single bucket.
Refill(tokens, last_refill, capacity, refill_rate, now) ==
  IF tokens < capacity * Scale
  THEN LET tokens_to_add == (now - last_refill) * refill_rate
       IN  IF tokens_to_add > 0
           THEN [tokens |-> Min(capacity * Scale, tokens + tokens_to_add), last_refill |-> now]
           ELSE [tokens |-> tokens, last_refill |-> last_refill]
  ELSE [tokens |-> tokens, last_refill |-> last_refill]

\* Cost check with "<" in place of "<=".
CostCheckStrict(cost, tokens) == cost * Scale < tokens

\* Line 29: the cost check of the single-bucket script.
CostCheck(cost, tokens) == cost * Scale <= tokens

\* The single-bucket script: KEYS = <<key>>,
\* ARGV = <<capacity, refill_rate, cost, now, ttl>>.  The result is the store
\* after the script and the reply.
SingleScript(st, KEYS, ARGV) ==
  LET key == KEYS[1]
      capacity == ARGV[1]
      refill_rate == ARGV[2]
      cost == ARGV[3]
      now == ARGV[4]
      ttl == ARGV[5]
      state == st[key]
  IN  IF state # Absent /\ state.kind # "single"
      THEN [store |-> st, reply |-> ScriptError]
      ELSE
        LET s0 == LoadState(state, capacity, now)
            r == Refill(s0.tokens, s0.last_refill, capacity, refill_rate, now)
            allowed == CostCheck(cost, r.tokens)
            tokens == IF allowed THEN r.tokens - cost * Scale ELSE r.tokens
        IN  [store |-> [st EXCEPT ![key] =
                          SingleState(tokens, r.last_refill, capacity, refill_rate, ttl)],
             reply |-> <<IF allowed THEN 1 ELSE 0, Floor(tokens)>>]

\* ---------------------------------------------------- dual-bucket script

\* User refill that dates the bucket at now_ms even when nothing is added.
RefillUserRewind(user_tokens, user_last_refill, user_capacity, user_refill_rate, now) ==
  IF user_tokens < user_capacity * Scale
  THEN LET tokens_to_add == (now - user_last_refill) * user_refill_rate
       IN  IF tokens_to_add > 0
           THEN [tokens |-> Min(user_capacity * Scale, user_tokens + tokens_to_add),
                 last_refill |-> now]
           ELSE [tokens |-> user_tokens, last_refill |-> now]
  ELSE [tokens |-> user_tokens, last_refill |-> user_last_refill]

\* Lines 77-84: lazy refill of the user (caller or IP) bucket.
RefillUser(user_tokens, user_last_refill, user_capacity, user_refill_rate, now) ==
  IF user_tokens < user_capacity * Scale
  THEN LET tokens_to_add == (now - user_last_refill) * user_refill_rate
       IN  IF tokens_to_add > 0
           THEN [tokens |-> Min(user_capacity * Scale, user_tokens + tokens_to_add),
                 last_refill |-> now]
           ELSE [tokens |-> user_tokens, last_refill |-> user_last_refill]
  ELSE [tokens |-> user_tokens, last_refill |-> user_last_refill]

\* Global refill without the clamp at capacity.
RefillGlobalUncapped(global_tokens, global_last_refill, global_capacity, global_refill_rate, now) ==
  IF global_tokens < global_capacity * Scale
  THEN LET tokens_to_add == (now - global_last_refill) * global_refill_rate
       IN  IF tokens_to_add > 0
           THEN [tokens |-> global_tokens + tokens_to_add, last_refill |-> now]
           ELSE [tokens |-> global_tokens, last_refill |-> global_last_refill]
  ELSE [tokens |-> global_tokens, last_refill |-> global_last_refill]

\* Lines 87-94: lazy refill of the global bucket.
RefillGlobal(global_tokens, global_last_refill, global_capacity, global_refill_rate, now) ==
  IF global_tokens < global_capacity * Scale
  THEN LET tokens_to_add == (now - global_last_refill) * global_refill_rate
       IN  IF tokens_to_add > 0
           THEN [tokens |-> Min(global_capacity * Scale, global_tokens + tokens_to_add),
                 last_refill |-> now]
           ELSE [tokens |-> global_tokens, last_refill |-> global_last_refill]
  ELSE [tokens |-> global_tokens, last_refill |-> global_last_refill]

\* Joint cost check with "or" in place of "and".
CostCheckDualEither(cost, user_tokens, global_tokens) ==
  cost * Scale <= user_tokens \/ cost * Scale <= global_tokens

\* Joint cost check that forgets the global bucket.
CostCheckDualUserOnly(cost, user_tokens, global_tokens) ==
  cost * Scale <= user_tokens

\* Line 98: the joint cost check of the dual-bucket script.
CostCheckDual(cost, user_tokens, global_tokens) ==
  cost * Scale <= user_tokens /\ cost * Scale <= global_tokens

\* Debit that charges the user bucket whenever it alone has the tokens.
DebitDualPartial(allowed, cost, user_tokens, global_tokens) ==
  [user |-> IF cost * Scale <= user_tokens THEN user_tokens - cost * Scale ELSE user_tokens,
   global |-> IF allowed THEN global_tokens - cost * Scale ELSE global_tokens]

\* Debit that charges the global bucket only.
DebitDualGlobalOnly(allowed, cost, user_tokens, global_tokens) ==
  [user |-> user_tokens,
   global |-> IF allowed THEN global_tokens - cost * Scale ELSE global_tokens]

\* Lines 99-100: the tokens of both buckets after the check.
DebitDual(allowed, cost, user_tokens, global_tokens) ==
  IF allowed
  THEN [user |-> user_tokens - cost * Scale, global |-> global_tokens - cost * Scale]
  ELSE [user |-> user_tokens, global |-> global_tokens]

\* A dual-bucket script that sets the expiry only when it creates a key and
\* keeps the time a live key has left (SET ... KEEPTTL).
DualScriptKeepTtl(st, KEYS, ARGV) ==
  LET user_state == st[KEYS[1]]
      global_state == st[KEYS[2]]
  IN  IF \/ (user_state # Absent /\ user_state.kind # "user")
         \/ (global_state # Absent /\ global_state.kind # "global")
      THEN [store |-> st, reply |-> ScriptError]
      ELSE
        LET u0 == LoadState(user_state, ARGV[3], ARGV[6])
            g0 == LoadState(global_state, ARGV[1], ARGV[6])
            u == RefillUser(u0.tokens, u0.last_refill, ARGV[3], ARGV[4], ARGV[6])
            g == RefillGlobal(g0.tokens, g0.last_refill, ARGV[1], ARGV[2], ARGV[6])
            allowed == CostCheckDual(ARGV[5], u.tokens, g.tokens)
            t == DebitDual(allowed, ARGV[5], u.tokens, g.tokens)
            st2 == [st EXCEPT
                      ![KEYS[1]] = UserState(t.user, u.last_refill, ARGV[3], ARGV[4],
                                             IF user_state = Absent THEN ARGV[7]
                                             ELSE user_state.ex),
                      ![KEYS[2]] = GlobalState(t.global, g.last_refill, ARGV[1], ARGV[2],
                                               IF global_state = Absent THEN ARGV[7]
                                               ELSE global_state.ex)]
        IN  [store |-> st2,
             reply |-> <<IF allowed THEN 1 ELSE 0, Floor(t.user), Floor(t.global)>>]

\* The dual-bucket script: KEYS = <<user_key, global_key>>, ARGV =
\* <<global_capacity, global_refill_rate, user_capacity, user_refill_rate,
\*   cost, now, ttl>>.
DualScript(st, KEYS, ARGV) ==
  LET user_key == KEYS[1]
      global_key == KEYS[2]
      global_capacity == ARGV[1]
      global_refill_rate == ARGV[2]
      user_capacity == ARGV[3]
      user_refill_rate == ARGV[4]
      cost == ARGV[5]
      now == ARGV[6]
      ttl == ARGV[7]
      user_state == st[user_key]
      global_state == st[global_key]
  IN  IF \/ (user_state # Absent /\ user_state.kind # "user")
         \/ (global_state # Absent /\ global_state.kind # "global")
      THEN [store |-> st, reply |-> ScriptError]
      ELSE
        LET u0 == LoadState(user_state, user_capacity, now)
            g0 == LoadState(global_state, global_capacity, now)
            u == RefillUser(u0.tokens, u0.last_refill, user_capacity, user_refill_rate, now)
            g == RefillGlobal(g0.tokens, g0.last_refill, global_capacity,
                              global_refill_rate, now)
            allowed == CostCheckDual(cost, u.tokens, g.tokens)
            t == DebitDual(allowed, cost, u.tokens, g.tokens)
            st1 == [st EXCEPT ![user_key] =
                      UserState(t.user, u.last_refill, user_capacity, user_refill_rate, ttl)]
            st2 == [st1 EXCEPT ![global_key] =
                      GlobalState(t.global, g.last_refill, global_capacity,
                                  global_refill_rate, ttl)]
        IN  [store |-> st2,
             reply |-> <<IF allowed THEN 1 ELSE 0, Floor(t.user), Floor(t.global)>>]


\* ------------------------------------------------------------ Go: adapter

\* AtomicTokenBucket that passes the cost where the capacity belongs.
AtomicTokenBucketCostFirst(key, capacity, refillRate, cost, ttl, now) ==
  [script |-> "endpoint_only",
   KEYS |-> <<bucketKey(key)>>,
   ARGV |-> <<cost, refillRate, capacity, now, ttl>>]

\* RedisStorage.AtomicTokenBucket: the script call it sends; now is
\* time.Now().UnixMilli() read before the call.
AtomicTokenBucket(key, capacity, refillRate, cost, ttl, now) ==
  [script |-> "endpoint_only",
   KEYS |-> <<bucketKey(key)>>,
   ARGV |-> <<capacity, refillRate, cost, now, ttl>>]

\* AtomicDualBucket with the two parameter pairs swapped in the arguments.
AtomicDualBucketSwapped(userKey, globalKey, globalCap, globalRate, userCap, userRate, cost, ttl, now) ==
  [script |-> "tier_endpoint",
   KEYS |-> <<bucketKey(userKey), bucketKey(globalKey)>>,
   ARGV |-> <<userCap, userRate, globalCap, globalRate, cost, now, ttl>>]

\* AtomicDualBucket that passes the global numbers for both buckets.
AtomicDualBucketGlobalForBoth(userKey, globalKey, globalCap, globalRate, userCap, userRate, cost, ttl, now) ==
  [script |-> "tier_endpoint",
   KEYS |-> <<bucketKey(userKey), bucketKey(globalKey)>>,
   ARGV |-> <<globalCap, globalRate, globalCap, globalRate, cost, now, ttl>>]

\* RedisStorage.AtomicDualBucket: the script call it sends.
AtomicDualBucket(userKey, globalKey, globalCap, globalRate, userCap, userRate, cost, ttl, now) ==
  [script |-> "tier_endpoint",
   KEYS |-> <<bucketKey(userKey), bucketKey(globalKey)>>,
   ARGV |-> <<globalCap, globalRate, userCap, userRate, cost, now, ttl>>]

\* NewRedisStorage registers tokenbucket.lua as "endpoint_only" and
\* tokenbucket_dual.lua as "tier_endpoint"; EvalSha runs the registered script.
RunScript(st, script, KEYS, ARGV) ==
  IF script = "endpoint_only" THEN SingleScript(st, KEYS, ARGV)
  ELSE DualScript(st, KEYS, ARGV)

\* The script files NewRedisStorage loads and the names it registers them
\* under (lines 40-41).
ScriptFiles ==
  [endpoint_only |-> "internal/storage/tokenbucket.lua",
   tier_endpoint |-> "internal/storage/tokenbucket_dual.lua"]
ScriptNames == DOMAIN ScriptFiles

\* The digest SCRIPT LOAD returns for a source text.
Sha(content) == "sha1(" \o content \o ")"
NameOfSha(sha) == CHOOSE n \in ScriptNames : Sha(ScriptFiles[n]) = sha

\* ScriptInfo as LoadScript memoizes it, and the absence of an entry.
ScriptInfo(name) == [Name |-> name, SHA |-> Sha(ScriptFiles[name]), Content |-> ScriptFiles[name]]
NotRegistered == [Name |-> "none"]

\* What a command of the RedisClient interface hands back through Result():
\* a value and an error.  Values are nil, a list of items, or something else.
NoErr == "nil"
NoScriptErr == "NOSCRIPT No matching script. Please use EVAL."
ConnErr == "dial tcp: connection refused"
LuaErr == "ERR user_script: attempt to compare nil with number"
NotFoundErr == "script not found"
Nil == [shape |-> "nil"]
Int64(n) == [t |-> "int64", v |-> n]
ListOf(reply) == [shape |-> "list", vals |-> [i \in DOMAIN reply |-> Int64(reply[i])]]

\* Replies that are not a list of the expected integers: a status string, a
\* list that is too short, a list whose items are strings.
MisshapedReplies ==
  { [shape |-> "string"],
    [shape |-> "list", vals |-> <<Int64(1)>>],
    [shape |-> "list", vals |-> <<[t |-> "string", v |-> 1], [t |-> "string", v |-> 0],
                                   [t |-> "string", v |-> 0]>>] }

\* A test that takes every error for a missing script.
IsNoScriptAnyError(err) == err # NoErr

\* strings.Contains(err.Error(), "NOSCRIPT") on the errors above.
IsNoScript(err) == err = NoScriptErr

\* The Result() of a script reply: the list of integers, or the error the
\* script raised.
ResultOf(reply) ==
  IF reply = ScriptError THEN [val |-> Nil, err |-> LuaErr]
  ELSE [val |-> ListOf(reply), err |-> NoErr]

\* A store that runs the script of a digest it does not hold, and still
\* answers NOSCRIPT.
StoreEvalShaRunsUnloaded(st, cache, sha, KEYS, ARGV) ==
  LET out == RunScript(st, NameOfSha(sha), KEYS, ARGV)
  IN  IF sha \notin cache
      THEN [store |-> out.store, res |-> [val |-> Nil, err |-> NoScriptErr], ran |-> 0]
      ELSE [store |-> out.store, res |-> ResultOf(out.reply), ran |-> 1]

\* client.EvalSha at the store (line 82): a digest the store does not hold is
\* refused with NOSCRIPT and nothing runs; otherwise the script runs.
StoreEvalSha(st, cache, sha, KEYS, ARGV) ==
  IF sha \notin cache
  THEN [store |-> st, res |-> [val |-> Nil, err |-> NoScriptErr], ran |-> 0]
  ELSE LET out == RunScript(st, NameOfSha(sha), KEYS, ARGV)
       IN  [store |-> out.store, res |-> ResultOf(out.reply), ran |-> 1]

\* A decoding that takes the remainders one item too early.
DecodeShifted(script, res) ==
  LET n == IF script = "endpoint_only" THEN 2 ELSE 3
  IN  IF \/ res.val.shape # "list"
         \/ Len(res.val.vals) < n
         \/ \E i \in 1..n : res.val.vals[i].t # "int64"
      THEN [kind |-> "panic"]
      ELSE [kind |-> "values", allowed |-> (res.val.vals[1].v = 1),
            rems |-> [i \in 1..(n - 1) |-> res.val.vals[i].v], err |-> res.err]

\* AtomicTokenBucket lines 105-108 and AtomicDualBucket lines 147-151: the
\* result is type-asserted to a list and its items to int64 before the error
\* is looked at; a failed assertion or a missing item panics.
Decode(script, res) ==
  LET n == IF script = "endpoint_only" THEN 2 ELSE 3
  IN  IF \/ res.val.shape # "list"
         \/ Len(res.val.vals) < n
         \/ \E i \in 1..n : res.val.vals[i].t # "int64"
      THEN [kind |-> "panic"]
      ELSE [kind |-> "values", allowed |-> (res.val.vals[1].v = 1),
            rems |-> [i \in 1..(n - 1) |-> res.val.vals[i + 1].v], err |-> res.err]

\* ------------------------------------------------------------ Go: handler

\* The orders in which a Go `range` may visit the keys of a map: each key
\* once, in an unspecified order.
RangeOrders(m) ==
  {order \in [1..Cardinality(DOMAIN m) -> DOMAIN m] :
     \A i, j \in DOMAIN order : i # j => order[i] # order[j]}

\* A helper that returns after the first tier.
getValidTiersFirstOnly(tiers, order) ==
  IF order = <<>> THEN <<>> ELSE <<order[1]>>

\* getValidTiers: appends every key the range visits to the slice.
RECURSIVE getValidTiers(_, _)
getValidTiers(tiers, order) ==
  IF order = <<>> THEN <<>>
  ELSE <<order[1]>> \o getValidTiers(tiers, Tail(order))

\* A tier lookup that finds a tier under every name.
hasTierAlways(rules, req) == TRUE

\* Line 144: tier, hasTier := h.rules.Tiers[req.UserTier].
hasTier(rules, req) == req.user_tier \in DOMAIN rules.Tiers

\* The value Go reads from the tier map: the zero value for a missing key.
tierOf(rules, req) ==
  IF req.user_tier \in DOMAIN rules.Tiers
  THEN rules.Tiers[req.user_tier]
  ELSE [Capacity |-> 0, RefillRate |-> 0]

\* CheckHandler up to the engine call: the client error it answers with, or
\* the engine call it makes (rule "none": no case of the switch matches).
Dispatch(rules, req) ==
  IF req.endpoint \notin DOMAIN rules.Endpoints
  THEN [kind |-> "reject", error |-> "unknown endpoint"]
  ELSE
    LET ep == rules.Endpoints[req.endpoint]
        rule == ep.Rule
        globalKey == GlobalKeyOf(req)
        cost == ep.Cost
        globalCapacity == ep.GlobalCapacity
        globalRefillrate == ep.GlobalRefillRate
    IN  CASE rule = "tiers+endpoints" ->
               IF ~hasTier(rules, req)
               THEN [kind |-> "reject", error |-> "invalid user_tier"]
               ELSE [kind |-> "dual", rule |-> rule,
                     userKey |-> UserKeyOf(req), globalKey |-> globalKey,
                     globalCap |-> globalCapacity, globalRate |-> globalRefillrate,
                     userCap |-> tierOf(rules, req).Capacity,
                     userRate |-> tierOf(rules, req).RefillRate,
                     cost |-> cost, ttl |-> TtlSeconds]
          [] rule = "IP+endpoints" ->
               IF req.ip_address = ""
               THEN [kind |-> "reject", error |-> "ip_address required for this endpoint"]
               ELSE [kind |-> "dual", rule |-> rule,
                     userKey |-> IpKeyOf(req), globalKey |-> globalKey,
                     globalCap |-> globalCapacity, globalRate |-> globalRefillrate,
                     userCap |-> rules.IPs.Capacity, userRate |-> rules.IPs.RefillRate,
                     cost |-> cost, ttl |-> TtlSeconds]
          [] rule = "endpoint" ->
               [kind |-> "single", rule |-> rule,
                endpointKey |-> EndpointKeyOf(req),
                globalCap |-> globalCapacity, globalRate |-> globalRefillrate,
                cost |-> cost, ttl |-> TtlSeconds]
          [] OTHER -> [kind |-> "none", rule |-> rule]

\* The script call of a dispatched request, with the clock value read.
EngineCall(d, now) ==
  IF d.kind = "dual"
  THEN AtomicDualBucket(d.userKey, d.globalKey, d.globalCap, d.globalRate,
                        d.userCap, d.userRate, d.cost, d.ttl, now)
  ELSE AtomicTokenBucket(d.endpointKey, d.globalCap, d.globalRate, d.cost, d.ttl, now)

\* Response that reports the two remainders in each other's field.
RespondSwapped(rule, engine) ==
  IF engine.kind = "panic" THEN [panicked |-> TRUE]
  ELSE IF engine.err # NoErr THEN [status |-> 500, error |-> "Rate limiter unavailable"]
  ELSE
    [status |-> IF engine.allowed THEN 200 ELSE 429,
     allowed |-> engine.allowed,
     userRemaining |-> IF rule = "endpoint" THEN 0 ELSE engine.rems[2],
     globalRemaining |-> engine.rems[1]]

\* CheckHandler from the engine call on (lines 159-218): the values the
\* engine returned are assigned per rule (the IP remainder goes to a local
\* variable), an error gives 500, otherwise 200 or 429 with the body.  A panic
\* of the engine unwinds the handler.
Respond(rule, engine) ==
  IF engine.kind = "panic" THEN [panicked |-> TRUE]
  ELSE IF engine.err # NoErr THEN [status |-> 500, error |-> "Rate limiter unavailable"]
  ELSE
    LET allowed == engine.allowed
        userRemaining == IF rule = "tiers+endpoints" THEN engine.rems[1] ELSE 0
        globalRemaining == IF rule = "endpoint" THEN engine.rems[1] ELSE engine.rems[2]
    IN  [status |-> IF allowed THEN 200 ELSE 429,
         allowed |-> allowed,
         userRemaining |-> userRemaining,
         globalRemaining |-> globalRemaining]

\* gin.Default() installs the Recovery middleware: a panic in the handler is
\* answered with status 500 and no body.
Recovery(resp) ==
  IF "panicked" \in DOMAIN resp THEN [status |-> 500, recovered |-> TRUE] ELSE resp

\* ------------------------------------------------------------------- state

VARIABLES
  store,   \* per store address: key -> stored value or Absent
  clock,   \* wall-clock time in milliseconds
  pc,      \* per handler: "idle" or "exec" (script call sent, not yet run)
  call,    \* per handler: the pending script call (raced: a script naming one
           \* of its keys has run since it was sent)
  nreq,    \* number of requests received so far
  last,    \* history: the last request completed (its script execution, its response)
  hist,    \* history: per key, the executions that named it
  nows,    \* history: the now_ms values of the executions so far
  reqs,    \* the requests the clients of this behaviour send
  rules,   \* the catalog the running service has loaded
  scripts, \* per instance: the adapter's registry, script name -> ScriptInfo
  loaded   \* the digests in the script cache of the store

vars == <<store, clock, pc, call, nreq, last, hist, nows, reqs, rules, scripts, loaded>>

NoCall == [script |-> "none"]
NoExec == [script |-> "none"]
\* The history of a key no execution has named: n executions, `allowed` of
\* them allowed, starved = one was denied although this bucket had the tokens,
\* inst and rem = the instance and the returned remainder of the latest one.
NoHist == [n |-> 0, allowed |-> 0, starved |-> FALSE, inst |-> 0, rem |-> 0]

Init ==
  /\ store = [a \in Addrs |-> [k \in AllKeys |-> Absent]]
  /\ clock = 0
  /\ pc = [p \in Procs |-> "idle"]
  /\ call = [p \in Procs |-> NoCall]
  /\ nreq = 0
  /\ last = NoExec
  /\ hist = [k \in AllKeys |-> NoHist]
  /\ nows = {}
  /\ reqs \in Populations
  /\ rules = Rules
  /\ scripts = [i \in Instances |-> [n \in ScriptNames |-> ScriptInfo(n)]]
  /\ loaded = {Sha(ScriptFiles[n]) : n \in ScriptNames}

\* Time passes.  The clock is read relative to the first request of the
\* behaviour, so it does not advance before one was made; it is read by the
\* requests only (redis.go:101, 143), so it is not followed after the last
\* one was made.
Tick ==
  /\ nreq > 0
  /\ nreq < MaxRequests
  /\ clock < MaxTicks * TickMs
  /\ clock' = clock + TickMs
  /\ UNCHANGED <<store, pc, call, nreq, last, hist, nows, reqs, rules, scripts, loaded>>

\* The service is stopped, the policy file edited, and the service started
\* again: main loads the catalog anew; the store is untouched.
Redeploy ==
  /\ reqs = AcrossRestart
  /\ rules = Rules
  /\ \A p \in Procs : pc[p] = "idle"
  /\ rules' = EditedRules
  /\ UNCHANGED <<store, clock, pc, call, nreq, last, hist, nows, reqs, scripts, loaded>>

\* No request names any key for the expiry time of the buckets (every SET
\* carries EX ttl): the store removes every key.  The histories of the
\* buckets end with them.
LongIdle ==
  /\ reqs = OverAnHour
  /\ clock < TtlSeconds * 1000
  /\ \A p \in Procs : pc[p] = "idle"
  /\ \E k \in AllKeys : store[StoreAddr][k] # Absent
  /\ clock' = clock + TtlSeconds * 1000
  /\ store' = [a \in Addrs |->
                 [k \in AllKeys |->
                    IF store[a][k] # Absent /\ store[a][k].ex * 1000 <= TtlSeconds * 1000
                    THEN Absent ELSE store[a][k]]]
  /\ last' = NoExec
  /\ hist' = [k \in AllKeys |-> NoHist]
  /\ UNCHANGED <<pc, call, nreq, nows, reqs, rules, scripts, loaded>>

\* The handlers of one instance are goroutines of the same code: a request
\* that arrives at an instance is served by the first handler that is free.
Accepts(p) ==
  /\ pc[p] = "idle"
  /\ \A q \in Procs : (q < p /\ InstanceOf(q) = InstanceOf(p)) => pc[q] # "idle"

\* The body of a client-error response: the invalid-tier payload lists the
\* tiers in the order the range over the tier map visited them.
ErrorPayload(req, d, order) ==
  IF d.error = "invalid user_tier"
  THEN [status |-> 400, error |-> d.error, provided |-> req.user_tier,
        valid_tiers |-> getValidTiers(rules.Tiers, order)]
  ELSE [status |-> 400, error |-> d.error]

\* CheckHandler answers a request without calling the engine.
Reject(p) ==
  /\ Accepts(p)
  /\ nreq < MaxRequests
  /\ \E req \in reqs :
       LET d == Dispatch(rules, req)
       IN  /\ d.kind \in {"reject", "none"}
           /\ \E order \in (IF d.kind = "reject" /\ d.error = "invalid user_tier"
                           THEN RangeOrders(rules.Tiers) ELSE {<<>>}) :
                last' = [script |-> "none", proc |-> p, inst |-> InstanceOf(p), req |-> req,
                         resp |-> IF d.kind = "reject"
                                  THEN ErrorPayload(req, d, order)
                                  ELSE [status |-> 429, allowed |-> FALSE,
                                        userRemaining |-> 0, globalRemaining |-> 0]]
  /\ nreq' = nreq + 1
  /\ UNCHANGED <<store, clock, pc, call, hist, nows, reqs, rules, scripts, loaded>>

\* CheckHandler validates a request, composes the keys, reads the clock and
\* sends the script call to the store.
Send(p) ==
  /\ Accepts(p)
  /\ nreq < MaxRequests
  /\ \E req \in reqs :
       LET d == Dispatch(rules, req)
       IN  /\ d.kind \in {"dual", "single"}
           /\ call' = [call EXCEPT ![p] =
                [req |-> req, policy |-> d, rule |-> d.rule, cost |-> d.cost,
                 now |-> clock, raced |-> FALSE]
                  @@ EngineCall(d, clock)]
  /\ pc' = [pc EXCEPT ![p] = "exec"]
  /\ nreq' = nreq + 1
  /\ UNCHANGED <<store, clock, last, hist, nows, reqs, rules, scripts, loaded>>

\* The keys of the script call handler q has sent and the store has not run.
PendingKeys(q) ==
  IF pc[q] = "exec" THEN {call[q].KEYS[i] : i \in DOMAIN call[q].KEYS} ELSE {}

\* The history of a key after one more execution.
Touched(h, a, starved, inst, rem) ==
  [n |-> h.n + 1, allowed |-> h.allowed + a, starved |-> h.starved \/ starved,
   inst |-> inst, rem |-> rem]

\* The store runs the script of a pending call to completion; the handler
\* decodes the reply and writes the response.
EvalSha(p) ==
  /\ pc[p] = "exec"
  /\ LET c == call[p]
         addr == ConnAddr(InstanceOf(p))
         out == RunScript(store[addr], c.script, c.KEYS, c.ARGV)
         idx == DOMAIN c.KEYS
         keys == {c.KEYS[i] : i \in idx}
     IN  /\ store' = [store EXCEPT ![addr] = out.store]
         /\ last' = [script |-> c.script, proc |-> p, inst |-> InstanceOf(p), req |-> c.req,
                     policy |-> c.policy, rule |-> c.rule, KEYS |-> c.KEYS, ARGV |-> c.ARGV,
                     cost |-> c.cost, now |-> c.now,
                     pre |-> [i \in idx |-> store[addr][c.KEYS[i]]],
                     prev |-> [i \in idx |-> hist[c.KEYS[i]]],
                     overlap |-> {k \in keys : \E q \in Procs \ {p} : k \in PendingKeys(q)},
                     raced |-> c.raced,
                     reply |-> out.reply,
                     resp |-> Recovery(Respond(c.rule, Decode(c.script, ResultOf(out.reply))))]
         /\ hist' = [k \in DOMAIN hist |->
                       IF k \in keys /\ out.reply # ScriptError
                       THEN Touched(hist[k], out.reply[1],
                                    out.reply[1] = 0 /\ out.store[k].tokens >= c.cost * Scale,
                                    InstanceOf(p),
                                    out.reply[1 + (CHOOSE i \in idx : c.KEYS[i] = k)])
                       ELSE hist[k]]
         /\ nows' = nows \cup {c.now}
         /\ call' = [q \in Procs |->
                       IF q = p THEN NoCall
                       ELSE IF PendingKeys(q) \cap keys # {}
                            THEN [call[q] EXCEPT !.raced = TRUE]
                            ELSE call[q]]
  /\ pc' = [pc EXCEPT ![p] = "idle"]
  /\ UNCHANGED <<clock, nreq, reqs, rules, scripts, loaded>>

Next ==
  \/ Tick
  \/ Redeploy
  \/ LongIdle
  \/ \E p \in Procs : Reject(p)
  \/ \E p \in Procs : Send(p)
  \/ \E p \in Procs : EvalSha(p)

Spec == Init /\ [][Next]_vars

\* ------------------------------------------- the adapter, step by step
\*
\* The same service with ExecuteScript taken apart: registry lookup, EVALSHA,
\* reload on NOSCRIPT, retry, and the decoding of the result; the store may
\* lose its script cache, refuse the connection or answer with a reply of
\* another shape, and an instance may have failed to register a script when
\* it started (NewRedisStorage ignores the error of LoadScript).

\* The registries after start: the second instance failed to load the
\* single-bucket script (the error of LoadScript is dropped, lines 40-41) and
\* serves without it; the other instances registered both scripts.
StartedRegistries ==
  [i \in Instances |-> [n \in ScriptNames |->
      IF i = 2 /\ n = "endpoint_only" THEN NotRegistered ELSE ScriptInfo(n)]]

InitAdapter ==
  /\ store = [a \in Addrs |-> [k \in AllKeys |-> Absent]]
  /\ clock = 0
  /\ pc = [p \in Procs |-> "idle"]
  /\ call = [p \in Procs |-> NoCall]
  /\ nreq = 0
  /\ last = NoExec
  /\ hist = [k \in AllKeys |-> NoHist]
  /\ nows = {}
  /\ reqs = Unreliable
  /\ rules = Rules
  /\ scripts = StartedRegistries
  /\ loaded \in {{Sha(ScriptFiles[n]) : n \in ScriptNames}, {}}

\* The store loses its script cache (restart, SCRIPT FLUSH).
ScriptFlush ==
  /\ loaded # {}
  /\ loaded' = {}
  /\ UNCHANGED <<store, clock, pc, call, nreq, last, hist, nows, reqs, rules, scripts>>

\* CheckHandler dispatches a request (one fewer than MaxRequests are served
\* here, each taking several steps); the adapter reads the clock and
\* ExecuteScript looks the script up (lines 77-80): an unknown name is an
\* error without any command sent to the store.
ExecuteScript(p) ==
  /\ Accepts(p)
  /\ nreq < MaxRequests - 1
  /\ \E req \in reqs :
       LET d == Dispatch(rules, req)
           e == EngineCall(d, clock)
           exists == scripts[InstanceOf(p)][e.script] # NotRegistered
       IN  /\ d.kind \in {"dual", "single"}
           /\ call' = [call EXCEPT ![p] =
                [req |-> req, policy |-> d, rule |-> d.rule, cost |-> d.cost,
                 now |-> clock, raced |-> FALSE,
                 execs |-> 0, reloads |-> 0, ran |-> 0, errs |-> <<>>, loadErr |-> NoErr,
                 res |-> IF exists THEN [val |-> Nil, err |-> NoErr]
                         ELSE [val |-> Nil, err |-> NotFoundErr],
                 misshaped |-> FALSE, dirty |-> FALSE, pre |-> <<>>, post |-> <<>>]
                  @@ e]
           /\ pc' = [pc EXCEPT ![p] = IF exists THEN "evalsha" ELSE "return"]
  /\ nreq' = nreq + 1
  /\ UNCHANGED <<store, clock, last, hist, nows, reqs, rules, scripts, loaded>>

\* Lines 84-96: only the first execution, and only when its error names
\* NOSCRIPT, is followed by the reload; otherwise ExecuteScript returns.
AfterEvalSha(stage, err) ==
  IF stage = "evalsha" /\ IsNoScript(err) THEN "reload" ELSE "return"

\* client.EvalSha with the digest of the registry entry (line 82, and line 94
\* for the retry), answered by the store.  A NOSCRIPT answer to the first
\* attempt leads to the reload; every other answer is what ExecuteScript
\* returns.
ClientEvalSha(p) ==
  /\ pc[p] \in {"evalsha", "retry"}
  /\ LET c == call[p]
         addr == ConnAddr(InstanceOf(p))
         script == scripts[InstanceOf(p)][c.script]
         out == StoreEvalSha(store[addr], loaded, script.SHA, c.KEYS, c.ARGV)
         idx == DOMAIN c.KEYS
     IN  /\ store' = [store EXCEPT ![addr] = out.store]
         /\ call' = [call EXCEPT ![p] =
                [c EXCEPT !.execs = @ + 1,
                          !.ran = @ + out.ran,
                          !.res = out.res,
                          !.errs = Append(@, out.res.err),
                          !.dirty = @ \/ (out.res.err # NoErr /\ out.store # store[addr]),
                          !.pre = IF out.ran = 1 THEN [i \in idx |-> store[addr][c.KEYS[i]]] ELSE @,
                          !.post = IF out.ran = 1 THEN [i \in idx |-> out.store[c.KEYS[i]]] ELSE @]]
         /\ pc' = [pc EXCEPT ![p] = AfterEvalSha(pc[p], out.res.err)]
  /\ UNCHANGED <<clock, nreq, last, hist, nows, reqs, rules, scripts, loaded>>

\* client.EvalSha fails on the connection: nothing reaches the store.
ClientEvalShaFails(p) ==
  /\ pc[p] \in {"evalsha", "retry"}
  /\ call' = [call EXCEPT ![p] =
         [call[p] EXCEPT !.execs = @ + 1,
                         !.res = [val |-> Nil, err |-> ConnErr],
                         !.errs = Append(@, ConnErr)]]
  /\ pc' = [pc EXCEPT ![p] = AfterEvalSha(pc[p], ConnErr)]
  /\ UNCHANGED <<store, clock, nreq, last, hist, nows, reqs, rules, scripts, loaded>>

\* client.EvalSha hands back, without error, a value that is not the list of
\* integers the scripts return.
ClientEvalShaMisshaped(p) ==
  /\ pc[p] \in {"evalsha", "retry"}
  /\ \E v \in MisshapedReplies :
       call' = [call EXCEPT ![p] =
         [call[p] EXCEPT !.execs = @ + 1,
                         !.res = [val |-> v, err |-> NoErr],
                         !.errs = Append(@, NoErr),
                         !.misshaped = TRUE]]
  /\ pc' = [pc EXCEPT ![p] = AfterEvalSha(pc[p], NoErr)]
  /\ UNCHANGED <<store, clock, nreq, last, hist, nows, reqs, rules, scripts, loaded>>

\* Lines 87-92: client.ScriptLoad of the memoized content succeeds; the new
\* digest is stored in the registry entry.
ClientScriptLoad(p) ==
  /\ pc[p] = "reload"
  /\ LET name == call[p].script
         sha == Sha(scripts[InstanceOf(p)][name].Content)
     IN  /\ loaded' = loaded \cup {sha}
         /\ scripts' = [scripts EXCEPT ![InstanceOf(p)][name].SHA = sha]
  /\ call' = [call EXCEPT ![p].reloads = @ + 1]
  /\ pc' = [pc EXCEPT ![p] = "retry"]
  /\ UNCHANGED <<store, clock, nreq, last, hist, nows, reqs, rules>>

\* Lines 87-90: client.ScriptLoad fails; ExecuteScript returns nil and the
\* error of the reload.
ClientScriptLoadFails(p) ==
  /\ pc[p] = "reload"
  /\ call' = [call EXCEPT ![p] =
         [call[p] EXCEPT !.reloads = @ + 1, !.loadErr = ConnErr,
                         !.res = [val |-> Nil, err |-> ConnErr]]]
  /\ pc' = [pc EXCEPT ![p] = "return"]
  /\ UNCHANGED <<store, clock, nreq, last, hist, nows, reqs, rules, scripts, loaded>>

\* ExecuteScript has returned: AtomicTokenBucket / AtomicDualBucket decode the
\* result, CheckHandler writes the response.
Return(p) ==
  /\ pc[p] = "return"
  /\ LET c == call[p]
         engine == Decode(c.script, c.res)
     IN  last' = [script |-> c.script, proc |-> p, inst |-> InstanceOf(p), req |-> c.req,
                  policy |-> c.policy, rule |-> c.rule, KEYS |-> c.KEYS, ARGV |-> c.ARGV,
                  cost |-> c.cost, now |-> c.now,
                  execs |-> c.execs, reloads |-> c.reloads, ran |-> c.ran, errs |-> c.errs,
                  loadErr |-> c.loadErr,
                  res |-> c.res, misshaped |-> c.misshaped, dirty |-> c.dirty,
                  pre |-> c.pre, post |-> c.post,
                  engine |-> engine,
                  resp |-> Recovery(Respond(c.rule, engine))]
  /\ call' = [call EXCEPT ![p] = NoCall]
  /\ pc' = [pc EXCEPT ![p] = "idle"]
  /\ UNCHANGED <<store, clock, nreq, hist, nows, reqs, rules, scripts, loaded>>

NextAdapter ==
  \/ ScriptFlush
  \/ \E p \in Procs : ExecuteScript(p)
  \/ \E p \in Procs : ClientEvalSha(p)
  \/ \E p \in Procs : ClientEvalShaFails(p)
  \/ \E p \in Procs : ClientEvalShaMisshaped(p)
  \/ \E p \in Procs : ClientScriptLoad(p)
  \/ \E p \in Procs : ClientScriptLoadFails(p)
  \/ \E p \in Procs : Return(p)

SpecAdapter == InitAdapter /\ [][NextAdapter]_vars


\* ============================================================== properties

\* The stored value of a key at the shared store.
Bucket(k) == store[StoreAddr][k]

\* The last completed request ran the dual (single) script to a reply.
IsDual == last.script = "tier_endpoint" /\ last.reply # ScriptError
IsSingle == last.script = "endpoint_only" /\ last.reply # ScriptError

\* The policy of the last request, as the catalog in force gave it.
Policy == last.policy

\* The service still runs with the catalog it was first started with.
SamePolicy == rules = Rules

\* Section 4.2, steps 1 and 2, as the specification words them: the tokens of
\* a bucket after refill, from the value stored before the call (an absent
\* bucket is full; a bucket below capacity gains elapsed*rate up to capacity;
\* a negative elapsed time adds nothing).
SpecRefill(pre, capacity, rate, now) ==
  IF pre = Absent THEN capacity * Scale
  ELSE IF pre.tokens < capacity * Scale
       THEN LET elapsed == IF now > pre.last_refill THEN now - pre.last_refill ELSE 0
            IN  Min(capacity * Scale, pre.tokens + elapsed * rate)
       ELSE pre.tokens

\* Post-refill tokens of the buckets of the last execution, per the policy.
UserPost == SpecRefill(last.pre[1], Policy.userCap, Policy.userRate, last.now)
GlobalPost == SpecRefill(last.pre[2], Policy.globalCap, Policy.globalRate, last.now)
SinglePost == SpecRefill(last.pre[1], Policy.globalCap, Policy.globalRate, last.now)

\* Every execution so far carried the same now_ms (no time elapsed).
SameNow == Cardinality(nows) <= 1

\* C1: a dual-bucket execution is allowed iff, after refill, the first bucket
\* and the second bucket each hold at least cost; when allowed, both buckets
\* are debited by exactly cost in that execution.
C1_DualAllowedIffBoth ==
  IsDual =>
    /\ (last.reply[1] = 1) <=>
         (UserPost >= Policy.cost * Scale /\ GlobalPost >= Policy.cost * Scale)
    /\ last.reply[1] = 1 =>
         /\ Bucket(last.KEYS[1]).tokens = UserPost - Policy.cost * Scale
         /\ Bucket(last.KEYS[2]).tokens = GlobalPost - Policy.cost * Scale

\* C1 witness: an allowed dual decision on two live buckets after time passed.
C1_Witness ==
  /\ IsDual
  /\ last.reply[1] = 1
  /\ last.pre[1] # Absent /\ last.pre[2] # Absent
  /\ last.now > last.pre[1].last_refill

\* C2: a denied dual-bucket decision debits neither bucket: each bucket's
\* tokens after the call equal its post-refill value and are not lower than
\* before the call.
C2_DeniedDebitsNeither ==
  (IsDual /\ last.reply[1] = 0) =>
    /\ Bucket(last.KEYS[1]).tokens = UserPost
    /\ Bucket(last.KEYS[2]).tokens = GlobalPost
    /\ last.pre[1] # Absent => Bucket(last.KEYS[1]).tokens >= last.pre[1].tokens
    /\ last.pre[2] # Absent => Bucket(last.KEYS[2]).tokens >= last.pre[2].tokens

\* C2 witness: a denial with only the global side exhausted; the user bucket
\* still holds at least cost.
C2_Witness ==
  /\ IsDual
  /\ last.reply[1] = 0
  /\ Bucket(last.KEYS[1]).tokens >= Policy.cost * Scale
  /\ Bucket(last.KEYS[2]).tokens < Policy.cost * Scale

\* C3: single-bucket script on a live key with now_ms >= last_refill: stored
\* tokens are min(capacity, prev + elapsed*rate) - cost when allowed and
\* min(capacity, prev + elapsed*rate) when denied.  The script does not clamp
\* the tokens it loads, so the equality fails on a bucket written under a
\* larger capacity (Redeploy).
C3_SingleRefillThenDebit ==
  (IsSingle /\ last.pre[1] # Absent /\ last.now >= last.pre[1].last_refill) =>
    LET refilled == Min(Policy.globalCap * Scale,
                        last.pre[1].tokens
                          + (last.now - last.pre[1].last_refill) * Policy.globalRate)
    IN  Bucket(last.KEYS[1]).tokens =
          IF last.reply[1] = 1 THEN refilled - Policy.cost * Scale ELSE refilled

\* C3 witness: a denied single-bucket decision that persisted a refill.
C3_Witness ==
  /\ IsSingle
  /\ last.pre[1] # Absent
  /\ last.now > last.pre[1].last_refill
  /\ last.reply[1] = 0
  /\ Bucket(last.KEYS[1]).tokens > last.pre[1].tokens

\* C4: with a fixed capacity per key, every stored tokens value and every
\* returned remaining lies between 0 and the capacity.
C4_TokensWithinCapacity ==
  SamePolicy =>
  /\ \A k \in AllKeys :
       Bucket(k) # Absent =>
         (0 <= Bucket(k).tokens /\ Bucket(k).tokens <= Bucket(k).capacity * Scale)
  /\ IsDual =>
       /\ 0 <= last.reply[2] /\ last.reply[2] <= Policy.userCap
       /\ 0 <= last.reply[3] /\ last.reply[3] <= Policy.globalCap
  /\ IsSingle => (0 <= last.reply[2] /\ last.reply[2] <= Policy.globalCap)

\* C4 witness: an execution whose refill exceeded the capacity and was clamped.
C4_Witness ==
  /\ IsDual
  /\ last.pre[2] # Absent
  /\ last.pre[2].tokens + (last.now - last.pre[2].last_refill) * Policy.globalRate
       > Policy.globalCap * Scale
  /\ last.reply[1] = 1

\* The engine calls the clients of this behaviour can cause.
DualPolicies == {Dispatch(rules, r) : r \in {q \in reqs : Dispatch(rules, q).kind = "dual"}}

\* C5: concurrent tiers+endpoints decisions of one caller on a full user
\* bucket, no time elapsing and the global bucket not limiting: under every
\* interleaving exactly min(N, floor(C/cost)) of N decisions are allowed, and
\* the user bucket is debited by cost times the number of allowed decisions.
C5_ConcurrentFanOut ==
  (SameNow /\ SamePolicy) =>
    \A d \in DualPolicies :
      LET K == bucketKey(d.userKey)
          h == hist[K]
      IN  (d.rule = "tiers+endpoints" /\ ~h.starved) =>
            /\ h.allowed = Min(h.n, d.userCap \div d.cost)
            /\ Bucket(K) # Absent =>
                 d.userCap * Scale - Bucket(K).tokens = d.cost * Scale * h.allowed

\* C5 witness: a decision that raced with another decision of the same caller
\* and was denied after floor(C/cost) decisions had been allowed.
C5_Witness ==
  /\ IsDual
  /\ SameNow
  /\ last.raced
  /\ last.reply[1] = 0
  /\ ~hist[last.KEYS[1]].starved
  /\ hist[last.KEYS[1]].allowed = Policy.userCap \div Policy.cost

\* C6: a decision sees the bucket as the previous decision on the key left
\* it, also when another service instance issued that one: with no time
\* elapsed, instance B's decision returns the remainder instance A's decision
\* returned, less cost when it is allowed.
C6_CrossInstance ==
  (IsDual /\ SameNow /\ last.prev[1].n > 0 /\ last.prev[1].inst # last.inst) =>
    LET rem == last.prev[1].rem
    IN  /\ last.reply[1] = 1 => last.reply[2] = rem - Policy.cost
        /\ last.reply[1] = 0 => last.reply[2] = rem
        /\ (rem >= Policy.cost /\ GlobalPost >= Policy.cost * Scale) => last.reply[1] = 1
        /\ last.resp.allowed = (last.reply[1] = 1)
        /\ last.rule = "tiers+endpoints" => last.resp.userRemaining = last.reply[2]

\* C6 witness: instance 2 is allowed right after instance 1's decision on the
\* same user key.
C6_Witness ==
  /\ IsDual
  /\ SameNow
  /\ last.inst = 2
  /\ last.prev[1].n = 1 /\ last.prev[1].inst = 1 /\ last.prev[1].allowed = 1
  /\ last.reply[1] = 1
  /\ last.resp.userRemaining = last.prev[1].rem - Policy.cost

\* Tokens taken out of a bucket of capacity cap that has never been refilled.
Debited(k, cap) == IF Bucket(k) = Absent THEN 0 ELSE cap * Scale - Bucket(k).tokens

\* The sum of Debited over a set of policies' user buckets.
RECURSIVE SumUserDebits(_)
SumUserDebits(ds) ==
  IF ds = {} THEN 0
  ELSE LET d == CHOOSE x \in ds : TRUE
       IN  Debited(bucketKey(d.userKey), d.userCap) + SumUserDebits(ds \ {d})

\* C7: concurrent dual-bucket decisions of different callers on one shared
\* global bucket: the global bucket never goes below 0; with no time elapsed
\* the allowed decisions times cost never exceed the global capacity; and in
\* every state each decision has debited both of its buckets or neither (the
\* global bucket's debits equal the sum of its callers' debits).
C7_DualIsIndivisible ==
  /\ \A k \in AllKeys : Bucket(k) # Absent => Bucket(k).tokens >= 0
  /\ IsDual =>
       \/ /\ UserPost - Bucket(last.KEYS[1]).tokens = Policy.cost * Scale
          /\ GlobalPost - Bucket(last.KEYS[2]).tokens = Policy.cost * Scale
       \/ /\ UserPost = Bucket(last.KEYS[1]).tokens
          /\ GlobalPost = Bucket(last.KEYS[2]).tokens
  /\ (SameNow /\ SamePolicy) =>
       \A d \in DualPolicies :
         LET G == bucketKey(d.globalKey)
             sharing == {e \in DualPolicies : e.globalKey = d.globalKey}
         IN  /\ hist[G].allowed * d.cost <= d.globalCap
             /\ Debited(G, d.globalCap) = SumUserDebits(sharing)
             /\ Debited(G, d.globalCap) = hist[G].allowed * d.cost * Scale

\* C7 witness: a decision that raced with another caller's decision on the
\* shared global bucket and was denied because that one took the tokens.
C7_Witness ==
  /\ IsDual
  /\ SameNow
  /\ last.raced
  /\ last.pre[1] = Absent
  /\ last.prev[2].n = 1 /\ last.prev[2].allowed = 1
  /\ last.reply[1] = 0
  /\ Bucket(last.KEYS[2]).tokens < Policy.cost * Scale

\* C8: sequential tiers+endpoints decisions of one caller from absent buckets,
\* no time elapsed, global bucket not limiting: the k-th decision, for
\* k <= floor(C/cost), is allowed with userRemaining = C - k*cost; later ones
\* are denied with userRemaining = the tokens left, C - floor(C/cost)*cost.
C8_SequentialDeplete ==
  (IsDual /\ SameNow /\ SamePolicy /\ last.rule = "tiers+endpoints"
      /\ ~hist[last.KEYS[1]].starved) =>
    LET k == hist[last.KEYS[1]].n
        C == Policy.userCap
        full == C \div Policy.cost
    IN  /\ k <= full =>
              /\ last.resp.status = 200 /\ last.resp.allowed
              /\ last.resp.userRemaining = C - k * Policy.cost
        /\ k > full =>
              /\ last.resp.status = 429 /\ ~last.resp.allowed
              /\ last.resp.userRemaining = C - full * Policy.cost

\* C8 witness: the decision after floor(C/cost) allowed ones, none of them
\* concurrent, is denied.
C8_Witness ==
  /\ IsDual
  /\ SameNow
  /\ last.rule = "tiers+endpoints"
  /\ ~last.raced /\ last.overlap = {}
  /\ ~hist[last.KEYS[1]].starved
  /\ hist[last.KEYS[1]].n = (Policy.userCap \div Policy.cost) + 1
  /\ last.resp.status = 429

\* C9: in the dual-bucket script each bucket is refilled lazily with its own
\* capacity and rate: from stored (T, t0), T < capacity, a decision at
\* now = t0 + D sees min(C, T + D*R) in that bucket, and an allowed decision
\* returns floor(min(C, T + D*R) - cost) for it.
C9_DualLazyRefill ==
  IsDual =>
    /\ (last.pre[1] # Absent /\ last.pre[1].tokens < Policy.userCap * Scale
          /\ last.now >= last.pre[1].last_refill) =>
         LET refilled == Min(Policy.userCap * Scale,
                             last.pre[1].tokens
                               + (last.now - last.pre[1].last_refill) * Policy.userRate)
         IN  /\ last.reply[1] = 1 => last.reply[2] = (refilled - Policy.cost * Scale) \div Scale
             /\ last.reply[1] = 0 => Bucket(last.KEYS[1]).tokens = refilled
    /\ (last.pre[2] # Absent /\ last.pre[2].tokens < Policy.globalCap * Scale
          /\ last.now >= last.pre[2].last_refill) =>
         LET refilled == Min(Policy.globalCap * Scale,
                             last.pre[2].tokens
                               + (last.now - last.pre[2].last_refill) * Policy.globalRate)
         IN  /\ last.reply[1] = 1 => last.reply[3] = (refilled - Policy.cost * Scale) \div Scale
             /\ last.reply[1] = 0 => Bucket(last.KEYS[2]).tokens = refilled

\* C9 witness: an allowed decision on a caller bucket that sat idle below
\* capacity; the refill leaves a fraction of a token.
C9_Witness ==
  /\ IsDual
  /\ last.reply[1] = 1
  /\ last.pre[1] # Absent
  /\ last.pre[1].tokens < Policy.userCap * Scale
  /\ last.now > last.pre[1].last_refill
  /\ Bucket(last.KEYS[1]).tokens % Scale # 0
  /\ last.resp.userRemaining = Bucket(last.KEYS[1]).tokens \div Scale

\* C10: the boundary of the cost check in both scripts: post-refill tokens
\* equal to cost are allowed and leave 0 tokens; post-refill tokens equal to
\* cost - 1 are denied and stay.
C10_CostBoundary ==
  /\ IsSingle =>
       /\ SinglePost = Policy.cost * Scale =>
            (last.reply[1] = 1 /\ Bucket(last.KEYS[1]).tokens = 0)
       /\ SinglePost = (Policy.cost - 1) * Scale =>
            (last.reply[1] = 0 /\ Bucket(last.KEYS[1]).tokens = SinglePost)
  /\ IsDual =>
       /\ (UserPost = Policy.cost * Scale /\ GlobalPost >= Policy.cost * Scale) =>
            (last.reply[1] = 1 /\ Bucket(last.KEYS[1]).tokens = 0)
       /\ (GlobalPost = Policy.cost * Scale /\ UserPost >= Policy.cost * Scale) =>
            (last.reply[1] = 1 /\ Bucket(last.KEYS[2]).tokens = 0)
       /\ (UserPost = (Policy.cost - 1) * Scale \/ GlobalPost = (Policy.cost - 1) * Scale) =>
            /\ last.reply[1] = 0
            /\ Bucket(last.KEYS[1]).tokens = UserPost
            /\ Bucket(last.KEYS[2]).tokens = GlobalPost

\* C10 witness: the single-bucket script denies at tokens = cost - 1 and, once
\* the refill has brought the bucket to exactly cost, allows and leaves 0.
C10_Witness ==
  /\ IsSingle
  /\ last.prev[1].n = 2 /\ last.prev[1].allowed = 1
  /\ last.pre[1].tokens = (Policy.cost - 1) * Scale
  /\ SinglePost = Policy.cost * Scale
  /\ last.reply = <<1, 0>>

\* The capacity the last execution was given for its i-th key.
CapacityOf(i) ==
  IF last.script = "tier_endpoint" /\ i = 1 THEN Policy.userCap ELSE Policy.globalCap

\* The tokens the last execution debited from each key it named.
DebitOfLast == IF last.reply[1] = 1 THEN Policy.cost * Scale ELSE 0

\* C11: a script run on a key that is absent at the store (never written, or
\* expired) treats the bucket as holding capacity tokens with last_refill =
\* the now_ms of the call, and the key exists afterwards with the
\* post-decision state (full capacity less the debit), written with the ttl.
C11_AbsentIsFull ==
  (IsDual \/ IsSingle) =>
    \A i \in DOMAIN last.KEYS :
      last.pre[i] = Absent =>
        /\ Bucket(last.KEYS[i]) # Absent
        /\ Bucket(last.KEYS[i]).last_refill = last.now
        /\ Bucket(last.KEYS[i]).tokens = CapacityOf(i) * Scale - DebitOfLast
        /\ Bucket(last.KEYS[i]).ex = Policy.ttl
        /\ last.reply[1 + i] = Floor(CapacityOf(i) * Scale - DebitOfLast)

\* C11 witness: a dual decision that re-creates both buckets after they had
\* been written and had expired.
C11_Witness ==
  /\ IsDual
  /\ last.now >= TtlSeconds * 1000
  /\ last.pre[1] = Absent /\ last.pre[2] = Absent
  /\ last.reply[1] = 1
  /\ Bucket(last.KEYS[1]).last_refill = last.now

\* C12: on a live key the stored last_refill never decreases from one script
\* execution to the next, whatever the order of the callers' clock readings;
\* a call whose now_ms is earlier than the stored last_refill adds no tokens,
\* leaves last_refill unchanged and is decided on the existing tokens.
C12_LastRefillMonotone ==
  (IsDual \/ IsSingle) =>
    \A i \in DOMAIN last.KEYS :
      last.pre[i] # Absent =>
        /\ Bucket(last.KEYS[i]).last_refill >= last.pre[i].last_refill
        /\ last.now < last.pre[i].last_refill =>
             /\ Bucket(last.KEYS[i]).last_refill = last.pre[i].last_refill
             /\ Bucket(last.KEYS[i]).tokens = last.pre[i].tokens - DebitOfLast
             /\ last.reply[1] = 1 => last.pre[i].tokens >= Policy.cost * Scale
             /\ (IsSingle /\ last.reply[1] = 0) => last.pre[i].tokens < Policy.cost * Scale

\* C12 witness: an allowed decision whose clock reading is older than the
\* last_refill another decision has stored in the meantime.
C12_Witness ==
  /\ IsDual
  /\ last.pre[1] # Absent
  /\ last.now < last.pre[1].last_refill
  /\ last.reply[1] = 1
  /\ Bucket(last.KEYS[1]).last_refill = last.pre[1].last_refill

\* The last request was answered by the handler without an engine call.
IsUnsent == last # NoExec /\ last.script = "none"

\* The requests the handler must refuse: endpoint not in the catalog, rule
\* tiers+endpoints with an empty or unknown tier, rule IP+endpoints with an
\* empty ip_address.
InvalidRequest(req) ==
  \/ req.endpoint \notin DOMAIN rules.Endpoints
  \/ /\ req.endpoint \in DOMAIN rules.Endpoints
     /\ \/ /\ rules.Endpoints[req.endpoint].Rule = "tiers+endpoints"
           /\ req.user_tier \notin DOMAIN rules.Tiers
        \/ /\ rules.Endpoints[req.endpoint].Rule = "IP+endpoints"
           /\ req.ip_address = ""

\* C14: a request with an unknown endpoint, a missing or unknown tier on a
\* tiers+endpoints endpoint, or an empty ip_address on an IP+endpoints
\* endpoint is answered 400 and never becomes a call to the storage engine:
\* the step that receives it sends no script and leaves every bucket as it is.
C14_InvalidNeverReachesEngine ==
  [][ /\ \A p \in Procs :
           (pc[p] = "idle" /\ pc'[p] = "exec") => ~InvalidRequest(call'[p].req)
      /\ (nreq' # nreq /\ pc' = pc /\ InvalidRequest(last'.req)) =>
           /\ last'.script = "none"
           /\ last'.resp.status = 400
           /\ store' = store
           /\ call' = call ]_vars

\* C14 witness: a request without an ip_address on an IP+endpoints endpoint
\* was refused while a bucket of an earlier valid request is live.
C14_Witness ==
  /\ IsUnsent
  /\ last.req.endpoint = "ip" /\ last.req.ip_address = ""
  /\ last.resp.status = 400
  /\ \E k \in AllKeys : Bucket(k) # Absent

\* C15: the valid_tiers field of an invalid-tier rejection holds exactly the
\* tier names of the catalog: every name, each once.
C15_ValidTiersExact ==
  (IsUnsent /\ last.resp.status = 400 /\ last.resp.error = "invalid user_tier") =>
    /\ {last.resp.valid_tiers[i] : i \in DOMAIN last.resp.valid_tiers} = DOMAIN rules.Tiers
    /\ Len(last.resp.valid_tiers) = Cardinality(DOMAIN rules.Tiers)
    /\ last.resp.provided = last.req.user_tier

\* C15 witness: a request naming a tier the catalog does not define was
\* refused with the tier list.
C15_Witness ==
  /\ IsUnsent
  /\ last.req.user_tier = "gold"
  /\ last.resp.status = 400
  /\ Len(last.resp.valid_tiers) = 2


\* ------------------------------------------- validation of a rule set
\*
\* ValidateRuleSet is a function of the rule set alone; it is applied to
\* every rule set over a small catalog of names and field values.

\* The values a numeric field of the rules file takes.
Fields == -1..MaxField

TierConfigs == [Capacity : Fields, RefillRate : Fields]

EndpointConfigs ==
  [Rule : {"tiers+endpoints", "IP+endpoints", "endpoint", "bogus"},
   Cost : Fields, GlobalCapacity : Fields, GlobalRefillRate : Fields]

\* The maps from some of the names to configurations.
MapsOver(names, configs) == UNION {[d -> configs] : d \in SUBSET names}

RuleSets ==
  [Tiers : MapsOver({"free", "pro"}, TierConfigs),
   Endpoints : MapsOver({"test"}, EndpointConfigs),
   IPs : TierConfigs]

validRules == {"tiers+endpoints", "IP+endpoints", "endpoint"}

\* A tier loop that looks at the first tier only.
ValidateTiersFirstOnly(tiers, order) ==
  IF order = <<>> THEN NoErr
  ELSE IF tiers[order[1]].Capacity <= 0
       THEN "tier '" \o order[1] \o "': capacity must be positive"
       ELSE IF tiers[order[1]].RefillRate <= 0
            THEN "tier '" \o order[1] \o "': refill_rate must be positive"
            ELSE NoErr

\* Lines 94-101: the range over the tiers, returning at the first violation.
RECURSIVE ValidateTiers(_, _)
ValidateTiers(tiers, order) ==
  IF order = <<>> THEN NoErr
  ELSE LET name == order[1]
           tier == tiers[name]
       IN  IF tier.Capacity <= 0
           THEN "tier '" \o name \o "': capacity must be positive"
           ELSE IF tier.RefillRate <= 0
                THEN "tier '" \o name \o "': refill_rate must be positive"
                ELSE ValidateTiers(tiers, Tail(order))

\* Lines 104-123: the range over the endpoints.
RECURSIVE ValidateEndpoints(_, _)
ValidateEndpoints(endpoints, order) ==
  IF order = <<>> THEN NoErr
  ELSE LET path == order[1]
           endpoint == endpoints[path]
       IN  IF endpoint.Rule \notin validRules
           THEN "endpoint '" \o path \o "': unknown rule '" \o endpoint.Rule \o "'"
           ELSE IF endpoint.Cost <= 0
           THEN "endpoint '" \o path \o "': cost must be positive"
           ELSE IF endpoint.GlobalCapacity <= 0
           THEN "endpoint '" \o path \o "': global_capacity must be positive"
           ELSE IF endpoint.GlobalRefillRate <= 0
           THEN "endpoint '" \o path \o "': global_refill_rate must be positive"
           ELSE ValidateEndpoints(endpoints, Tail(order))

\* ValidateRuleSet: tiers, then endpoints, then the IP defaults; the maps are
\* visited in the orders given.
ValidateRuleSet(rs, tierOrder, endpointOrder) ==
  LET tierErr == ValidateTiers(rs.Tiers, tierOrder)
      endpointErr == ValidateEndpoints(rs.Endpoints, endpointOrder)
  IN  IF tierErr # NoErr THEN tierErr
      ELSE IF endpointErr # NoErr THEN endpointErr
      ELSE IF rs.IPs.Capacity <= 0 THEN "ip config: capacity must be positive"
      ELSE IF rs.IPs.RefillRate <= 0 THEN "ip config: refill_rate must be positive"
      ELSE NoErr

InitValidate ==
  /\ store = [a \in Addrs |-> [k \in AllKeys |-> Absent]]
  /\ clock = 0
  /\ pc = [p \in Procs |-> "idle"]
  /\ call = [p \in Procs |-> NoCall]
  /\ nreq = 0
  /\ last = NoExec
  /\ hist = [k \in AllKeys |-> NoHist]
  /\ nows = {}
  /\ reqs = {}
  /\ rules \in RuleSets
  /\ scripts = [i \in Instances |-> [n \in ScriptNames |-> NotRegistered]]
  /\ loaded = {}

\* ValidateRuleSet is called on the rule set.
Validate ==
  /\ last = NoExec
  /\ \E tierOrder \in RangeOrders(rules.Tiers), endpointOrder \in RangeOrders(rules.Endpoints) :
       last' = [script |-> "validate", rs |-> rules,
                err |-> ValidateRuleSet(rules, tierOrder, endpointOrder)]
  /\ UNCHANGED <<store, clock, pc, call, nreq, hist, nows, reqs, rules, scripts, loaded>>

NextValidate == Validate

SpecValidate == InitValidate /\ [][NextValidate]_vars

\* ValidateRuleSet has been applied.
IsValidated == last # NoExec /\ last.script = "validate"

\* Some tier, some endpoint or the IP defaults break a rule of the rules file.
Violates(rs) ==
  \/ \E t \in DOMAIN rs.Tiers : rs.Tiers[t].Capacity <= 0 \/ rs.Tiers[t].RefillRate <= 0
  \/ \E e \in DOMAIN rs.Endpoints :
        \/ rs.Endpoints[e].Rule \notin {"tiers+endpoints", "IP+endpoints", "endpoint"}
        \/ rs.Endpoints[e].Cost <= 0
        \/ rs.Endpoints[e].GlobalCapacity <= 0
        \/ rs.Endpoints[e].GlobalRefillRate <= 0
  \/ rs.IPs.Capacity <= 0
  \/ rs.IPs.RefillRate <= 0

\* C20: ValidateRuleSet returns an error iff some tier has capacity <= 0 or
\* refill_rate <= 0, or some endpoint has an unknown rule or cost,
\* global_capacity or global_refill_rate <= 0, or the IP defaults have
\* capacity <= 0 or refill_rate <= 0; otherwise it returns nil.
C20_ValidateIffViolation ==
  IsValidated => (last.err # NoErr <=> Violates(last.rs))

\* A rule set was refused for its second tier alone, whichever tier the
\* loop visited first.
C20_Witness ==
  /\ IsValidated
  /\ last.err = "tier 'pro': refill_rate must be positive"
  /\ DOMAIN last.rs.Tiers = {"free", "pro"}
  /\ last.rs.Tiers["free"].Capacity > 0 /\ last.rs.Tiers["free"].RefillRate > 0
  /\ DOMAIN last.rs.Endpoints # {}

\* ------------------------------------------- start of the service
\*
\* main: LoadRuleSet("config/rules.yaml"), log.Fatalf on its error, then the
\* storage, the handler and the server.  `rules` is the content of the rules
\* file; the handlers are "down" until main has run.

\* A rules file LoadRuleSet cannot read or parse.
Unparsable == [error |-> "yaml: unmarshal errors"]

\* The rules files the service is started with: the catalog, and the catalog
\* with one number or rule changed into one the validation rules forbid.
RulesFiles ==
  { Rules,
    [Rules EXCEPT !.Tiers.free.Capacity = 0],
    [Rules EXCEPT !.Tiers.free.RefillRate = -1],
    [Rules EXCEPT !.Endpoints.test.Rule = "bogus"],
    [Rules EXCEPT !.Endpoints.test.Cost = 0],
    [Rules EXCEPT !.Endpoints.test.GlobalCapacity = 0],
    [Rules EXCEPT !.Endpoints.test.GlobalRefillRate = 0],
    [Rules EXCEPT !.IPs.Capacity = -1],
    Unparsable }

\* The requests served after the start.
AtStartup ==
  [key : {"u1"}, endpoint : {"test"}, user_tier : {"free"}, ip_address : {""}]

InitStartup ==
  /\ store = [a \in Addrs |-> [k \in AllKeys |-> Absent]]
  /\ clock = 0
  /\ pc = [p \in Procs |-> "down"]
  /\ call = [p \in Procs |-> NoCall]
  /\ nreq = 0
  /\ last = NoExec
  /\ hist = [k \in AllKeys |-> NoHist]
  /\ nows = {}
  /\ reqs = AtStartup
  /\ rules \in RulesFiles
  /\ scripts = [i \in Instances |-> [n \in ScriptNames |-> ScriptInfo(n)]]
  /\ loaded = {Sha(ScriptFiles[n]) : n \in ScriptNames}

\* main, lines 17-63: LoadRuleSet returned the rule set without error; the
\* handler is created with it and the server runs.
Main ==
  /\ \A p \in Procs : pc[p] = "down"
  /\ rules # Unparsable
  /\ pc' = [p \in Procs |-> "idle"]
  /\ UNCHANGED <<store, clock, call, nreq, last, hist, nows, reqs, rules, scripts, loaded>>

\* main, lines 17-20: LoadRuleSet returned an error; log.Fatalf ends the
\* process.
MainFatal ==
  /\ \A p \in Procs : pc[p] = "down"
  /\ rules = Unparsable
  /\ pc' = [p \in Procs |-> "exited"]
  /\ UNCHANGED <<store, clock, call, nreq, last, hist, nows, reqs, rules, scripts, loaded>>

NextStartup ==
  \/ Main
  \/ MainFatal
  \/ \E p \in Procs : Reject(p)
  \/ \E p \in Procs : Send(p)
  \/ \E p \in Procs : EvalSha(p)

SpecStartup == InitStartup /\ [][NextStartup]_vars

\* The service has answered a request.
HasServed == last # NoExec /\ "resp" \in DOMAIN last

\* C21: validation is fail-fast at load: the service never serves a decision
\* with a catalog that violates a validation rule.
C21_NeverServesInvalidCatalog ==
  HasServed => ~Violates(rules)

\* A decision was allowed under a catalog whose cost is not positive.
C21_Witness ==
  /\ HasServed
  /\ rules.Endpoints.test.Cost <= 0
  /\ last.resp.status = 200

\* ------------------------------------------- the three strategies
\*
\* The service of Spec, serving one caller on an endpoint of one of the three
\* rules: tiers+endpoints, IP+endpoints or endpoint.

EveryRule ==
       [key : {"u1"}, endpoint : {"test"}, user_tier : {"free"}, ip_address : {""}]
  \cup [key : {"u1"}, endpoint : {"ip"}, user_tier : {""}, ip_address : {"10.0.0.1"}]
  \cup [key : {"u1"}, endpoint : {"list"}, user_tier : {""}, ip_address : {""}]

InitDispatch ==
  /\ store = [a \in Addrs |-> [k \in AllKeys |-> Absent]]
  /\ clock = 0
  /\ pc = [p \in Procs |-> "idle"]
  /\ call = [p \in Procs |-> NoCall]
  /\ nreq = 0
  /\ last = NoExec
  /\ hist = [k \in AllKeys |-> NoHist]
  /\ nows = {}
  /\ reqs \in {{r} : r \in EveryRule}
  /\ rules = Rules
  /\ scripts = [i \in Instances |-> [n \in ScriptNames |-> ScriptInfo(n)]]
  /\ loaded = {Sha(ScriptFiles[n]) : n \in ScriptNames}

NextDispatch ==
  \/ Tick
  \/ \E p \in Procs : Send(p)
  \/ \E p \in Procs : EvalSha(p)

SpecDispatch == InitDispatch /\ [][NextDispatch]_vars

\* The engine call the rule of a request's endpoint asks for: the script and
\* the keys, written out.
CallFollowsRule(c) ==
  LET req == c.req
      rule == rules.Endpoints[req.endpoint].Rule
      global == "rate_limit:bucket:global:" \o req.endpoint
  IN  CASE rule = "tiers+endpoints" ->
             /\ c.script = "tier_endpoint"
             /\ c.KEYS = << "rate_limit:bucket:user:" \o req.key \o ":" \o req.endpoint
                              \o ":" \o req.user_tier, global >>
        [] rule = "IP+endpoints" ->
             /\ c.script = "tier_endpoint"
             /\ c.KEYS = << "rate_limit:bucket:ip:" \o req.ip_address \o ":" \o req.endpoint,
                            global >>
        [] rule = "endpoint" ->
             /\ c.script = "endpoint_only"
             /\ c.KEYS = << "rate_limit:bucket:endpoint:" \o req.endpoint >>

\* The key each request's engine call names last (the global or the endpoint
\* bucket), one per endpoint.
LastKeys ==
  { LET c == EngineCall(Dispatch(rules, r), 0) IN c.KEYS[Len(c.KEYS)] : r \in reqs }

\* The script executions so far, counted on those keys.
RECURSIVE Executions(_)
Executions(ks) ==
  IF ks = {} THEN 0
  ELSE LET k == CHOOSE x \in ks : TRUE
       IN  hist[k].n + Executions(ks \ {k})

\* C22: for every valid request the strategy and the keys are fixed by the
\* rule of its endpoint, every key sent to the store is the composed key
\* prefixed with rate_limit:bucket:, and exactly one engine call is made per
\* request.
C22_RuleFixesStrategyAndKeys ==
  /\ \A p \in Procs : pc[p] = "exec" => CallFollowsRule(call[p])
  /\ last # NoExec => CallFollowsRule(last)
  /\ Executions(LastKeys) + Cardinality({p \in Procs : pc[p] = "exec"}) = nreq

\* An IP+endpoints request was decided while another one was in flight.
C22_Witness ==
  /\ last # NoExec
  /\ last.rule = "IP+endpoints"
  /\ \E p \in Procs : pc[p] = "exec"
  /\ Executions(LastKeys) = 2

\* The numbers the catalog gives the two buckets of a dual decision: the
\* tier's (or the IP defaults) for the first key, the endpoint's global
\* numbers for the second.
OwnNumbers(req) ==
  LET ep == rules.Endpoints[req.endpoint]
      own == IF ep.Rule = "tiers+endpoints" THEN rules.Tiers[req.user_tier] ELSE rules.IPs
  IN  [userCap |-> own.Capacity, userRate |-> own.RefillRate,
       globalCap |-> ep.GlobalCapacity, globalRate |-> ep.GlobalRefillRate,
       cost |-> ep.Cost]

\* C23: through handler, AtomicDualBucket and script each bucket of a dual
\* decision is governed by its own policy: the caller (or IP) bucket by the
\* tier's (or IP default) capacity and rate, the global bucket by the
\* endpoint's global capacity and rate; the pairs are never swapped.
C23_EachBucketItsOwnPolicy ==
  IsDual =>
    LET o == OwnNumbers(last.req)
        U == Bucket(last.KEYS[1])
        G == Bucket(last.KEYS[2])
        debit == IF last.reply[1] = 1 THEN o.cost * Scale ELSE 0
    IN  /\ U.capacity = o.userCap /\ U.refill_rate = o.userRate
        /\ G.capacity = o.globalCap /\ G.refill_rate = o.globalRate
        /\ U.tokens = SpecRefill(last.pre[1], o.userCap, o.userRate, last.now) - debit
        /\ G.tokens = SpecRefill(last.pre[2], o.globalCap, o.globalRate, last.now) - debit
        /\ U.tokens <= o.userCap * Scale
        /\ G.tokens <= o.globalCap * Scale

\* A tiers+endpoints decision after time has passed: the caller bucket gained
\* elapsed time times the tier's rate, the global bucket another amount.
C23_Witness ==
  /\ IsDual
  /\ last.rule = "tiers+endpoints"
  /\ last.pre[1] # Absent /\ last.pre[2] # Absent
  /\ last.now > last.pre[1].last_refill
  /\ Bucket(last.KEYS[1]).tokens - last.pre[1].tokens
       = (last.now - last.pre[1].last_refill) * rules.Tiers[last.req.user_tier].RefillRate
  /\ Bucket(last.KEYS[2]).tokens - last.pre[2].tokens
       # Bucket(last.KEYS[1]).tokens - last.pre[1].tokens

\* C24: the response of an IP+endpoints decision carries the IP bucket's
\* remainder as userRemaining and the global bucket's as globalRemaining,
\* allowed or denied.
C24_IpRemainderReported ==
  (IsDual /\ last.rule = "IP+endpoints") =>
    /\ last.resp.userRemaining = last.reply[2]
    /\ last.resp.globalRemaining = last.reply[3]

\* An IP+endpoints decision that left tokens in the IP bucket.
C24_Witness ==
  /\ IsDual
  /\ last.rule = "IP+endpoints"
  /\ last.reply[2] > 0

\* C25: on an endpoint with rule endpoint every response reports
\* userRemaining = 0 and globalRemaining = the endpoint bucket's remainder;
\* from an absent bucket with no time elapsing exactly
\* floor(globalCapacity / cost) decisions are allowed and the next is denied.
C25_EndpointOnly ==
  (IsSingle /\ last.rule = "endpoint") =>
    LET ep == rules.Endpoints[last.req.endpoint]
        C == ep.GlobalCapacity
        full == C \div ep.Cost
        k == hist[last.KEYS[1]].n
    IN  /\ last.resp.userRemaining = 0
        /\ last.resp.globalRemaining = Floor(Bucket(last.KEYS[1]).tokens)
        /\ SameNow =>
             /\ k <= full =>
                  /\ last.resp.status = 200 /\ last.resp.allowed
                  /\ last.resp.globalRemaining = C - k * ep.Cost
             /\ k > full =>
                  /\ last.resp.status = 429 /\ ~last.resp.allowed
                  /\ last.resp.globalRemaining = C - full * ep.Cost

\* The decision after floor(globalCapacity / cost) allowed ones is denied.
C25_Witness ==
  /\ IsSingle
  /\ last.rule = "endpoint"
  /\ SameNow
  /\ hist[last.KEYS[1]].n
       = (rules.Endpoints[last.req.endpoint].GlobalCapacity
            \div rules.Endpoints[last.req.endpoint].Cost) + 1
  /\ last.resp.status = 429

\* ------------------------------------------- the expiry of the buckets
\*
\* One request population per rule again, served over hours: between the
\* requests the service is idle for half the expiry time at a stretch.  The
\* ex of a stored value is the time the key has left to live (what TTL key
\* answers): a SET ... EX ttl sets it, the passing of time lowers it, and the
\* store removes the key when nothing is left.

IdleSeconds == TtlSeconds \div 2

Idle ==
  /\ \A p \in Procs : pc[p] = "idle"
  /\ clock < MaxIdles * IdleSeconds * 1000
  /\ clock' = clock + IdleSeconds * 1000
  /\ store' = [a \in Addrs |->
                 [k \in AllKeys |->
                    IF store[a][k] = Absent THEN Absent
                    ELSE IF store[a][k].ex <= IdleSeconds THEN Absent
                    ELSE [store[a][k] EXCEPT !.ex = @ - IdleSeconds]]]
  /\ UNCHANGED <<pc, call, nreq, last, hist, nows, reqs, rules, scripts, loaded>>

NextExpiry ==
  \/ Idle
  \/ \E p \in Procs : Send(p)
  \/ \E p \in Procs : EvalSha(p)

SpecExpiry == InitDispatch /\ [][NextExpiry]_vars

\* The seconds since the last script execution.
SinceLast == (clock - last.now) \div 1000

\* C26: every script execution, allowing or denying, writes back every key
\* it names with expiry ttl, and the ttl the dispatch passes is one hour for
\* each of the three strategies; so a key is removed only when ttl seconds
\* have passed in which no decision named it, and lives until then.
C26_EveryKeyWrittenWithTtl ==
  (IsDual \/ IsSingle) =>
    /\ last.ARGV[Len(last.ARGV)] = 60 * 60
    /\ \A i \in DOMAIN last.KEYS :
         /\ SinceLast < 60 * 60 =>
              /\ Bucket(last.KEYS[i]) # Absent
              /\ Bucket(last.KEYS[i]).ex = 60 * 60 - SinceLast
         /\ Bucket(last.KEYS[i]) = Absent => SinceLast >= 60 * 60

\* A denied dual decision, half the expiry time ago: both keys are alive with
\* the other half left.
C26_Witness ==
  /\ IsDual
  /\ last.reply[1] = 0
  /\ SinceLast = IdleSeconds
  /\ \A i \in DOMAIN last.KEYS :
       Bucket(last.KEYS[i]) # Absent /\ Bucket(last.KEYS[i]).ex = IdleSeconds

\* ------------------------------------------- refill, step by step
\*
\* Two callers on the endpoint with the small global bucket, observed from
\* the moment the service has answered one request of each at time 0: the
\* first caller's was allowed and emptied the global bucket, the second
\* caller's was denied by the global bucket and left that caller's own
\* bucket full.  From there the callers come back every TickMs or later;
\* each request is answered before the clock moves on.

\* The store after the script of request req has run at time now.
StoreAfter(st, req, now) ==
  LET e == EngineCall(Dispatch(Rules, req), now)
  IN  RunScript(st, e.script, e.KEYS, e.ARGV).store

FirstCaller == [key |-> "u1", endpoint |-> "tight", user_tier |-> "free", ip_address |-> ""]
SecondCaller == [key |-> "u2", endpoint |-> "tight", user_tier |-> "free", ip_address |-> ""]

InitComeBack ==
  /\ store = [a \in Addrs |->
                StoreAfter(StoreAfter([k \in AllKeys |-> Absent], FirstCaller, 0),
                           SecondCaller, 0)]
  /\ clock = 0
  /\ pc = [p \in Procs |-> "idle"]
  /\ call = [p \in Procs |-> NoCall]
  /\ nreq = 0
  /\ last = NoExec
  /\ hist = [k \in AllKeys |-> NoHist]
  /\ nows = {}
  /\ reqs = TwoCallers
  /\ rules = Rules
  /\ scripts = [i \in Instances |-> [n \in ScriptNames |-> ScriptInfo(n)]]
  /\ loaded = {Sha(ScriptFiles[n]) : n \in ScriptNames}

Wait ==
  /\ \A p \in Procs : pc[p] = "idle"
  /\ clock < MaxWaits * TickMs
  /\ clock' = clock + TickMs
  /\ UNCHANGED <<store, pc, call, nreq, last, hist, nows, reqs, rules, scripts, loaded>>

NextComeBack ==
  \/ Wait
  \/ \E p \in Procs : Send(p)
  \/ \E p \in Procs : EvalSha(p)

SpecComeBack == InitComeBack /\ [][NextComeBack]_vars

\* Capacity and rate of the i-th key of a dual execution, per its policy.
DualCapacity(e, i) == IF i = 1 THEN e.policy.userCap ELSE e.policy.globalCap
DualRate(e, i) == IF i = 1 THEN e.policy.userRate ELSE e.policy.globalRate

\* A dual execution b follows the dual execution a, d = b.now - a.now > 0
\* milliseconds later: on every key both name that b finds below capacity, b
\* credits d * rate (at most what the bucket lacks to its capacity), stores
\* the fractional result and returns its floor.
CreditsElapsed(a, b, st) ==
  \A i \in DOMAIN b.KEYS :
    ( /\ \E j \in DOMAIN a.KEYS : a.KEYS[j] = b.KEYS[i]
      /\ b.pre[i] # Absent
      /\ b.pre[i].tokens < DualCapacity(b, i) * Scale ) =>
        LET debit == IF b.reply[1] = 1 THEN b.cost * Scale ELSE 0
            credited == st[b.KEYS[i]].tokens + debit - b.pre[i].tokens
        IN  /\ credited = Min((b.now - a.now) * DualRate(b, i),
                               DualCapacity(b, i) * Scale - b.pre[i].tokens)
            /\ b.reply[1 + i] = Floor(st[b.KEYS[i]].tokens)

\* C28: the scripts store fractional tokens and floor only what they return:
\* for decisions d milliseconds apart on a bucket below capacity the refill
\* credited at each step is exactly d * rate / 1000 tokens (until the cap),
\* and the returned remainder is the floor of the stored tokens.
C28_RefillCreditsElapsed ==
  [][ ( /\ last.script = "tier_endpoint" /\ last.reply # ScriptError
        /\ last' # last
        /\ last'.script = "tier_endpoint" /\ last'.reply # ScriptError
        /\ last'.now > last.now ) =>
          CreditsElapsed(last, last', store'[StoreAddr]) ]_vars

\* The second caller's bucket, debited from full one tick ago and still
\* dated 0, is found below capacity and filled up to capacity, a fraction of
\* a token at most having accrued since the debit.
C28_Witness ==
  /\ IsDual
  /\ last.req = SecondCaller
  /\ last.now = MaxWaits * TickMs
  /\ hist[last.KEYS[1]].n = 2
  /\ last.pre[1].last_refill = 0
  /\ last.pre[1].tokens = (FreeCapacity - EndpointCost) * Scale
  /\ TickMs * FreeRefillRate < EndpointCost * Scale
  /\ Bucket(last.KEYS[1]).tokens
       = FreeCapacity * Scale - (IF last.reply[1] = 1 THEN EndpointCost * Scale ELSE 0)

\* ------------------------------------------- properties of the adapter

\* The last request has gone through ExecuteScript and been answered.
IsReturned == last # NoExec /\ last.script # "none" /\ "engine" \in DOMAIN last

\* The engine handed values back and no error.
EngineDecided == IsReturned /\ last.engine.kind = "values" /\ last.engine.err = NoErr

\* The body of the response holds the flag and the remainders of the engine:
\* caller (or IP) and global remainder of a dual decision, global remainder
\* of a single one.
BodyCarriesEngine ==
  /\ last.resp.allowed = last.engine.allowed
  /\ IF last.script = "tier_endpoint"
     THEN /\ last.resp.userRemaining = last.engine.rems[1]
          /\ last.resp.globalRemaining = last.engine.rems[2]
     ELSE last.resp.globalRemaining = last.engine.rems[1]

\* C13: for every request that reached the engine the status follows the
\* engine outcome (failure 500, allowed 200, denied 429) and the body carries
\* the engine's allowed flag and remainders.
C13_StatusAndBodyFollowEngine ==
  IsReturned =>
    IF EngineDecided
    THEN /\ last.resp.status = (IF last.engine.allowed THEN 200 ELSE 429)
         /\ BodyCarriesEngine
    ELSE last.resp.status = 500

\* An IP+endpoints decision was allowed with tokens left in the IP bucket.
C13_Witness ==
  /\ EngineDecided
  /\ last.rule = "IP+endpoints"
  /\ last.engine.allowed
  /\ last.engine.rems[1] > 0

\* C16: when executing the script fails, the adapter returns that error to
\* its caller as a value: no crash, no allow or deny.
C16_ErrorReturnedAsValue ==
  (IsReturned /\ last.res.err # NoErr) =>
     /\ last.engine.kind = "values"
     /\ last.engine.err = last.res.err

\* A call came back from ExecuteScript with an error.
C16_Witness == IsReturned /\ last.res.err # NoErr

\* C17: when the reply of the store has not the expected shape, the adapter
\* surfaces a decoding error instead of a decision and the request is
\* answered as an internal error.
C17_MisshapedIsDecodeError ==
  (IsReturned /\ last.misshaped) =>
     /\ last.engine.kind = "values"
     /\ last.engine.err # NoErr
     /\ last.resp.status = 500

\* A call came back from ExecuteScript with a misshaped reply and no error.
C17_Witness == IsReturned /\ last.misshaped /\ last.res.err = NoErr

\* The executions and reloads of one ExecuteScript call, given the errors of
\* its executions and of its reload.
OneReloadOneRetry(c) ==
  /\ c.execs = Len(c.errs)
  /\ c.execs <= 2
  /\ c.reloads <= 1
  /\ c.execs >= 1 =>
       IF c.errs[1] = NoScriptErr
       THEN /\ c.reloads = 1
            /\ IF c.loadErr = NoErr
               THEN /\ c.execs = 2
                    /\ c.res.err = c.errs[2]
                    /\ scripts[c.inst][c.script].SHA = Sha(ScriptFiles[c.script])
               ELSE /\ c.execs = 1
                    /\ c.res.err = c.loadErr
       ELSE /\ c.reloads = 0
            /\ c.execs = 1
            /\ c.res.err = c.errs[1]

\* C18: a first execution refused as script-not-loaded is followed by exactly
\* one reload, which stores the digest, and exactly one retry whose error is
\* surfaced (also when it is script-not-loaded again); any other error is
\* surfaced without reload or retry; one call makes at most two executions
\* and one reload.
C18_ReloadOnceRetryOnce ==
  /\ \A p \in Procs : pc[p] # "idle" => call[p].execs <= 2 /\ call[p].reloads <= 1
  /\ IsReturned => OneReloadOneRetry(last)

\* A call whose first execution and whose retry were both refused as
\* script-not-loaded.
C18_Witness ==
  /\ IsReturned
  /\ last.errs = <<NoScriptErr, NoScriptErr>>
  /\ last.reloads = 1
  /\ last.res.err = NoScriptErr

\* The call found the script not loaded and its retry ran the script.
ColdDecision ==
  /\ IsReturned
  /\ last.errs = <<NoScriptErr, NoErr>>
  /\ ~last.misshaped

\* The store the retry of the last call ran on, as far as its keys go.
StoreBefore(c) ==
  [k \in AllKeys |->
     IF \E i \in DOMAIN c.KEYS : c.KEYS[i] = k
     THEN c.pre[CHOOSE i \in DOMAIN c.KEYS : c.KEYS[i] = k]
     ELSE Absent]

RepliedInts(n) ==
  /\ IsReturned
  /\ last.res.err = NoErr
  /\ last.res.val.shape = "list"
  /\ Len(last.res.val.vals) = n
  /\ \A i \in 1..n : last.res.val.vals[i].t = "int64"

\* The i-th integer of the reply.
ReplyInt(i) == last.res.val.vals[i].v

\* C27: AtomicTokenBucket executes the script registered under its name by
\* the memoized digest and from a reply [a, r] returns allowed = (a = 1) and
\* remaining = r with no error; AtomicDualBucket likewise returns allowed =
\* (a = 1), userRemaining = u and globalRemaining = g from a reply [a, u, g].
C27_AdapterDecodesReply ==
  /\ \A p \in Procs :
       pc[p] \in {"evalsha", "reload", "retry"} =>
         /\ call[p].script = (IF call[p].rule = "endpoint" THEN "endpoint_only"
                              ELSE "tier_endpoint")
         /\ scripts[InstanceOf(p)][call[p].script]
              = [Name |-> call[p].script,
                 SHA |-> Sha(ScriptFiles[call[p].script]),
                 Content |-> ScriptFiles[call[p].script]]
  /\ (last.script = "endpoint_only" /\ RepliedInts(2)) =>
       /\ last.engine.kind = "values"
       /\ last.engine.err = NoErr
       /\ last.engine.allowed = (ReplyInt(1) = 1)
       /\ last.engine.rems = <<ReplyInt(2)>>
       /\ last.ran = 1 =>
            last.res = ResultOf(SingleScript(StoreBefore(last), last.KEYS, last.ARGV).reply)
  /\ (last.script = "tier_endpoint" /\ RepliedInts(3)) =>
       /\ last.engine.kind = "values"
       /\ last.engine.err = NoErr
       /\ last.engine.allowed = (ReplyInt(1) = 1)
       /\ last.engine.rems = <<ReplyInt(2), ReplyInt(3)>>
       /\ last.ran = 1 =>
            last.res = ResultOf(DualScript(StoreBefore(last), last.KEYS, last.ARGV).reply)

\* A denied single-bucket decision: reply [0, r] with tokens left.
C27_Witness ==
  /\ last.script = "endpoint_only"
  /\ RepliedInts(2)
  /\ ReplyInt(1) = 0
  /\ ReplyInt(2) > 0
  /\ ~last.engine.allowed
  /\ last.engine.rems[1] = ReplyInt(2)

\* ------------------------------------------- the registry, shared
\*
\* The handlers of ONE service instance: goroutines that call ExecuteScript
\* on the same RedisStorage and so on the same scripts map.  ExecuteScript is
\* taken apart down to the single accesses of the registry entry: the read of
\* script.SHA for an EVALSHA (lines 82 and 94), SCRIPT LOAD (line 87), and
\* the assignment of the new digest to the entry (line 92).  RedisStorage has
\* no lock (lines 14-18) and ExecuteScript takes none (lines 76-98).

\* The instance whose handlers these are.
OneInstance == 1

InitShared ==
  /\ store = [a \in Addrs |-> [k \in AllKeys |-> Absent]]
  /\ clock = 0
  /\ pc = [p \in Procs |-> "idle"]
  /\ call = [p \in Procs |-> NoCall]
  /\ nreq = 0
  /\ last = NoExec
  /\ hist = [k \in AllKeys |-> NoHist]
  /\ nows = {}
  /\ reqs = Unreliable
  /\ rules = Rules
  /\ scripts = [i \in Instances |-> [n \in ScriptNames |-> ScriptInfo(n)]]
  /\ loaded \in {{Sha(ScriptFiles[n]) : n \in ScriptNames}, {}}

\* Lines 77-80: a handler enters ExecuteScript and finds the entry.
Lookup(p) ==
  /\ pc[p] = "idle"
  /\ nreq < MaxRequests
  /\ \E req \in reqs :
       LET d == Dispatch(rules, req)
       IN  /\ d.kind \in {"dual", "single"}
           /\ call' = [call EXCEPT ![p] =
                [req |-> req, rule |-> d.rule, sha |-> "", execs |-> 0,
                 res |-> [val |-> Nil, err |-> NoErr]] @@ EngineCall(d, clock)]
  /\ pc' = [pc EXCEPT ![p] = "evalsha"]
  /\ nreq' = nreq + 1
  /\ UNCHANGED <<store, clock, last, hist, nows, reqs, rules, scripts, loaded>>

\* The digests a read of script.SHA by handler p can yield: the one in the
\* entry, or, when another handler is at the assignment of line 92 for the
\* same entry, the one being assigned (the two accesses are not ordered).
ReadSha(p) ==
  {scripts[OneInstance][call[p].script].SHA}
    \cup {call[q].sha : q \in {r \in Procs \ {p} :
                                 pc[r] = "write" /\ call[r].script = call[p].script}}

\* Lines 82 and 94: EVALSHA with the digest read from the entry.
SharedEvalSha(p) ==
  /\ pc[p] \in {"evalsha", "retry"}
  /\ \E sha \in ReadSha(p) :
       LET c == call[p]
           addr == ConnAddr(OneInstance)
           out == StoreEvalSha(store[addr], loaded, sha, c.KEYS, c.ARGV)
       IN  /\ store' = [store EXCEPT ![addr] = out.store]
           /\ call' = [call EXCEPT ![p] = [c EXCEPT !.execs = @ + 1, !.res = out.res]]
           /\ pc' = [pc EXCEPT ![p] = AfterEvalSha(pc[p], out.res.err)]
  /\ UNCHANGED <<clock, nreq, last, hist, nows, reqs, rules, scripts, loaded>>

\* Line 87: SCRIPT LOAD of the memoized content; the digest comes back.
SharedScriptLoad(p) ==
  /\ pc[p] = "reload"
  /\ LET sha == Sha(scripts[OneInstance][call[p].script].Content)
     IN  /\ loaded' = loaded \cup {sha}
         /\ call' = [call EXCEPT ![p].sha = sha]
  /\ pc' = [pc EXCEPT ![p] = "write"]
  /\ UNCHANGED <<store, clock, nreq, last, hist, nows, reqs, rules, scripts>>

\* Line 92: r.scripts[scriptName].SHA = sha.
WriteSha(p) ==
  /\ pc[p] = "write"
  /\ scripts' = [scripts EXCEPT ![OneInstance][call[p].script].SHA = call[p].sha]
  /\ pc' = [pc EXCEPT ![p] = "retry"]
  /\ UNCHANGED <<store, clock, call, nreq, last, hist, nows, reqs, rules, loaded>>

\* Line 97: ExecuteScript returns; the adapter decodes, the handler answers.
SharedReturn(p) ==
  /\ pc[p] = "return"
  /\ LET c == call[p]
         engine == Decode(c.script, c.res)
     IN  last' = [script |-> c.script, proc |-> p, inst |-> OneInstance, req |-> c.req,
                  rule |-> c.rule, KEYS |-> c.KEYS, ARGV |-> c.ARGV, execs |-> c.execs,
                  res |-> c.res, engine |-> engine,
                  resp |-> Recovery(Respond(c.rule, engine))]
  /\ call' = [call EXCEPT ![p] = NoCall]
  /\ pc' = [pc EXCEPT ![p] = "idle"]
  /\ UNCHANGED <<store, clock, nreq, hist, nows, reqs, rules, scripts, loaded>>

NextShared ==
  \/ ScriptFlush
  \/ \E p \in Procs : Lookup(p)
  \/ \E p \in Procs : SharedEvalSha(p)
  \/ \E p \in Procs : SharedScriptLoad(p)
  \/ \E p \in Procs : WriteSha(p)
  \/ \E p \in Procs : SharedReturn(p)

SpecShared == InitShared /\ [][NextShared]_vars

\* The handlers inside the reload window: past the NOSCRIPT answer, before
\* the new digest is in the entry.
InReloadWindow == {p \in Procs : pc[p] \in {"reload", "write"}}

\* The handlers about to read the digest of the entry named n.
ReadersOf(n) == {p \in Procs : pc[p] \in {"evalsha", "retry"} /\ call[p].script = n}

\* C29: the shared digest cache has a single writer: of the concurrent
\* ExecuteScript calls that met a script-not-loaded error at most one at a
\* time is inside the reload window, and no caller reads the digest of an
\* entry while it is being written.
C29_SingleWriter ==
  /\ Cardinality(InReloadWindow) <= 1
  /\ \A p \in Procs : pc[p] = "write" => ReadersOf(call[p].script) = {}

\* Two handlers were refused with NOSCRIPT for the same script, both have
\* reloaded it and both are about to assign the digest to the one entry.
C29_Witness ==
  \E p, q \in Procs :
    /\ p # q
    /\ pc[p] = "write" /\ pc[q] = "write"
    /\ call[p].script = call[q].script

\* ------------------------------------------- a lowered capacity
\*
\* One caller on one endpoint, served across a restart of the service with a
\* policy file in which an operator has lowered the capacity of the
\* endpoint's bucket below what the bucket may hold at that moment.

LoweredRules ==
  [Rules EXCEPT !.Endpoints.bulk.GlobalCapacity = EndpointCost,
                !.Endpoints.test.GlobalCapacity = FreeCapacity]

BeforeAndAfter ==
       [key : {"u1"}, endpoint : {"bulk"}, user_tier : {""}, ip_address : {""}]
  \cup [key : {"u1"}, endpoint : {"test"}, user_tier : {"free"}, ip_address : {""}]

InitRestart ==
  /\ store = [a \in Addrs |-> [k \in AllKeys |-> Absent]]
  /\ clock = 0
  /\ pc = [p \in Procs |-> "idle"]
  /\ call = [p \in Procs |-> NoCall]
  /\ nreq = 0
  /\ last = NoExec
  /\ hist = [k \in AllKeys |-> NoHist]
  /\ nows = {}
  /\ reqs \in {{r} : r \in BeforeAndAfter}
  /\ rules = Rules
  /\ scripts = [i \in Instances |-> [n \in ScriptNames |-> ScriptInfo(n)]]
  /\ loaded = {Sha(ScriptFiles[n]) : n \in ScriptNames}

\* The service is stopped and started with the edited file: main loads the
\* catalog anew (main.go:17); the store and its buckets are untouched.
Restart ==
  /\ rules = Rules
  /\ \A p \in Procs : pc[p] = "idle"
  /\ rules' = LoweredRules
  /\ UNCHANGED <<store, clock, pc, call, nreq, last, hist, nows, reqs, scripts, loaded>>

NextRestart ==
  \/ Tick
  \/ Restart
  \/ \E p \in Procs : Send(p)
  \/ \E p \in Procs : EvalSha(p)

SpecRestart == InitRestart /\ [][NextRestart]_vars

\* The refill rate the last execution was given for its i-th key.
RateOf(i) ==
  IF last.script = "tier_endpoint" /\ i = 1 THEN Policy.userRate ELSE Policy.globalRate

\* C30: the capacity and refill rate of the call govern a decision, not the
\* values stored with the bucket: after a decision on a key, also one whose
\* tokens were written under another (for example larger) capacity, the
\* stored tokens and the returned remainder lie between 0 and the capacity
\* of the call, and the stored policy is that of the call.
C30_CallTimePolicyGoverns ==
  (IsDual \/ IsSingle) =>
    \A i \in DOMAIN last.KEYS :
      /\ Bucket(last.KEYS[i]).capacity = CapacityOf(i)
      /\ Bucket(last.KEYS[i]).refill_rate = RateOf(i)
      /\ 0 <= Bucket(last.KEYS[i]).tokens
      /\ Bucket(last.KEYS[i]).tokens <= CapacityOf(i) * Scale
      /\ 0 <= last.reply[1 + i]
      /\ last.reply[1 + i] <= CapacityOf(i)

\* The first decision after the restart, on a bucket written under the
\* larger capacity and holding more than the capacity of the call.
C30_Witness ==
  /\ IsDual \/ IsSingle
  /\ rules = LoweredRules
  /\ \E i \in DOMAIN last.KEYS :
       /\ last.pre[i] # Absent
       /\ last.pre[i].capacity > CapacityOf(i)
       /\ last.pre[i].tokens > CapacityOf(i) * Scale
       /\ Bucket(last.KEYS[i]).capacity = CapacityOf(i)

\* ------------------------------------------- loading the scripts
\*
\* The registries from their creation (make(map), line 37): LoadScript is
\* called for each name by NewRedisStorage (lines 40-41, its error dropped)
\* and may be called again later; SCRIPT LOAD succeeds or fails on the
\* connection.  Requests are served in whatever state the registry is in.
\* (The script files are taken to be readable: LoadScript ends the process
\* otherwise, line 49.)

\* A LoadScript that registers the name whatever SCRIPT LOAD answered.
LoadScriptAlways(registry, name, res) ==
  [registry EXCEPT ![name] =
     [Name |-> name, SHA |-> res.val, Content |-> ScriptFiles[name]]]

\* LoadScript lines 52-63: the registry after SCRIPT LOAD answered res; the
\* entry is written only when there was no error.
LoadScript(registry, name, res) ==
  IF res.err # NoErr THEN registry
  ELSE [registry EXCEPT ![name] =
          [Name |-> name, SHA |-> res.val, Content |-> ScriptFiles[name]]]

InitLoad ==
  /\ store = [a \in Addrs |-> [k \in AllKeys |-> Absent]]
  /\ clock = 0
  /\ pc = [p \in Procs |-> "idle"]
  /\ call = [p \in Procs |-> NoCall]
  /\ nreq = 0
  /\ last = NoExec
  /\ hist = [k \in AllKeys |-> NoHist]
  /\ nows = {}
  /\ reqs = Unreliable
  /\ rules = Rules
  /\ scripts = [i \in Instances |-> [n \in ScriptNames |-> NotRegistered]]
  /\ loaded = {}

\* LoadScript of instance i for name n, SCRIPT LOAD accepted by the store.
LoadScriptOk(i, n) ==
  /\ scripts[i][n] = NotRegistered
  /\ LET res == [val |-> Sha(ScriptFiles[n]), err |-> NoErr]
     IN  /\ scripts' = [scripts EXCEPT ![i] = LoadScript(scripts[i], n, res)]
         /\ loaded' = loaded \cup {res.val}
         /\ last' = [script |-> "none", inst |-> i, name |-> n, loadErr |-> res.err]
  /\ UNCHANGED <<store, clock, pc, call, nreq, hist, nows, reqs, rules>>

\* LoadScript of instance i for name n, SCRIPT LOAD failing on the connection.
LoadScriptFails(i, n) ==
  /\ scripts[i][n] = NotRegistered
  /\ LET res == [val |-> "", err |-> ConnErr]
     IN  /\ scripts' = [scripts EXCEPT ![i] = LoadScript(scripts[i], n, res)]
         /\ last' = [script |-> "none", inst |-> i, name |-> n, loadErr |-> res.err]
  /\ UNCHANGED <<store, clock, pc, call, nreq, hist, nows, reqs, rules, loaded>>

NextLoad ==
  \/ \E i \in Instances, n \in ScriptNames : LoadScriptOk(i, n)
  \/ \E i \in Instances, n \in ScriptNames : LoadScriptFails(i, n)
  \/ \E p \in Procs : ExecuteScript(p)
  \/ \E p \in Procs : ClientEvalSha(p)
  \/ \E p \in Procs : Return(p)

SpecLoad == InitLoad /\ [][NextLoad]_vars

\* The last step was a LoadScript that failed.
LoadFailed == last # NoExec /\ "loadErr" \in DOMAIN last /\ last.loadErr # NoErr

DeniedCaller == [key |-> "u1", endpoint |-> "test", user_tier |-> "free", ip_address |-> ""]

\* The store in which only the global bucket of the caller's endpoint has
\* been written, and holds nothing.
GlobalEmptied ==
  [k \in AllKeys |->
     IF k = bucketKey(GlobalKeyOf(DeniedCaller))
     THEN GlobalState(0, 0, Rules.Endpoints[DeniedCaller.endpoint].GlobalCapacity,
                      Rules.Endpoints[DeniedCaller.endpoint].GlobalRefillRate, TtlSeconds)
     ELSE Absent]

InitDenied ==
  /\ store = [a \in Addrs |-> StoreAfter(GlobalEmptied, DeniedCaller, 0)]
  /\ clock = 0
  /\ pc = [p \in Procs |-> "idle"]
  /\ call = [p \in Procs |-> NoCall]
  /\ nreq = 0
  /\ last = NoExec
  /\ hist = [k \in AllKeys |-> NoHist]
  /\ nows = {}
  /\ reqs = {DeniedCaller}
  /\ rules = Rules
  /\ scripts = [i \in Instances |-> [n \in ScriptNames |-> ScriptInfo(n)]]
  /\ loaded = {Sha(ScriptFiles[n]) : n \in ScriptNames}

NextDenied ==
  \/ Wait
  \/ \E p \in Procs : Send(p)
  \/ \E p \in Procs : EvalSha(p)

SpecDenied == InitDenied /\ [][NextDenied]_vars

\* The earliest and the latest now_ms of the executions so far.
FirstNow == CHOOSE t \in nows : \A u \in nows : t <= u
LastNow == CHOOSE t \in nows : \A u \in nows : u <= t

\* C32: token-bucket rate bound: on every bucket a script consults, with
\* fixed capacity C and rate R, the costs of the decisions allowed within a
\* time interval sum to at most C + R * (length of the interval); here for
\* the interval from the first to the latest execution, all of which name
\* the same keys.
C32_RateBound ==
  (IsDual \/ IsSingle) =>
    \A i \in DOMAIN last.KEYS :
      hist[last.KEYS[i]].allowed * Policy.cost * Scale
        <= CapacityOf(i) * Scale + RateOf(i) * (LastNow - FirstNow)

\* The caller's bucket was debited from full while its last_refill was
\* still the time of the denial, and has since been credited again.
C32_Witness ==
  /\ IsDual
  /\ last.reply[1] = 1
  /\ hist[last.KEYS[1]].allowed >= 2
  /\ last.pre[1].last_refill < FirstNow
  /\ last.pre[1].tokens < CapacityOf(1) * Scale
  /\ last.now > last.pre[1].last_refill

\* ------------------------------------------- expiry against refill
\*
\* The service runs with a catalog that ValidateRuleSet accepts (every
\* number positive, every rule known) and in which one endpoint-only bucket
\* is larger than what its rate refills within the expiry time, a single
\* request costing the whole bucket.  One caller, served over hours.

SlowRules ==
  [Rules EXCEPT !.Endpoints.list =
     [Rule |-> "endpoint",
      Cost |-> TtlSeconds * FreeRefillRate + 1,
      GlobalCapacity |-> TtlSeconds * FreeRefillRate + 1,
      GlobalRefillRate |-> FreeRefillRate]]

SlowCaller == [key |-> "u1", endpoint |-> "list", user_tier |-> "", ip_address |-> ""]

InitSlow ==
  /\ store = [a \in Addrs |-> [k \in AllKeys |-> Absent]]
  /\ clock = 0
  /\ pc = [p \in Procs |-> "idle"]
  /\ call = [p \in Procs |-> NoCall]
  /\ nreq = 0
  /\ last = NoExec
  /\ hist = [k \in AllKeys |-> NoHist]
  /\ nows = {}
  /\ reqs = {SlowCaller}
  /\ rules = SlowRules
  /\ scripts = [i \in Instances |-> [n \in ScriptNames |-> ScriptInfo(n)]]
  /\ loaded = {Sha(ScriptFiles[n]) : n \in ScriptNames}

NextSlow ==
  \/ Idle
  \/ \E p \in Procs : Send(p)
  \/ \E p \in Procs : EvalSha(p)

SpecSlow == InitSlow /\ [][NextSlow]_vars

\* The last execution found its i-th key absent although an earlier
\* execution had written it: the store had expired the bucket.
Recreated(i) == last.pre[i] = Absent /\ last.prev[i].n > 0

\* The now_ms of the latest execution before the last one.
PrevNow ==
  CHOOSE t \in nows : t < last.now /\ \A u \in nows : u < last.now => u <= t

\* C33: idle expiry never grants more than lazy refill would have: when the
\* store has expired a bucket and a decision re-creates it full, the
\* unexpired bucket would have been full as well: its stored tokens (less
\* than the floor last returned plus one) plus elapsed * rate reach the
\* capacity.
C33_ExpiryGrantsNoMore ==
  (IsDual \/ IsSingle) =>
    \A i \in DOMAIN last.KEYS :
      Recreated(i) =>
        (last.prev[i].rem + 1) * Scale + (last.now - PrevNow) * RateOf(i)
          > CapacityOf(i) * Scale

\* A decision allowed on a bucket re-created after expiry, the decision
\* before it having emptied the bucket.
C33_Witness ==
  /\ IsSingle
  /\ Recreated(1)
  /\ last.prev[1].rem = 0
  /\ last.reply[1] = 1
  /\ last.now - PrevNow = TtlSeconds * Scale

\* --------------------------------------------- decisions without a bucket

\* C34: a 429 or 200 response is produced only after a script execution for
\* that request: for every request whose endpoint is in the catalog the
\* service runs with, whatever rule string the entry carries, the handler
\* answers a client error or has called the engine, and never reports
\* allowed = false without a bucket having been consulted.
C34_DecisionOnlyAfterScript ==
  (HasServed /\ last.req.endpoint \in DOMAIN rules.Endpoints) =>
    \/ last.resp.status = 400
    \/ last.script # "none"

\* The handler answered 429 with allowed = false to a request whose catalog
\* entry carries a rule string no case of the switch matches.
C34_Witness ==
  /\ IsUnsent
  /\ "resp" \in DOMAIN last
  /\ Dispatch(rules, last.req).kind = "none"
  /\ last.resp.status = 429
  /\ ~last.resp.allowed
  /\ \A a \in Addrs : \A k \in AllKeys : store[a][k] = Absent

\* ------------------------------------------------------- composed keys
\*
\* Caller ids, IP addresses and the names of the catalog are free text: the
\* handler joins them with ':' and neither the binding of the request nor
\* ValidateRuleSet restricts their characters.  A catalog with two
\* tiers+endpoints endpoints of which one name ends in ':' and the other,
\* and an endpoint-only endpoint whose name starts like a global key; the
\* callers u1:v1 and u1.

ColonPolicy(rule) ==
  [Rule |-> rule, Cost |-> EndpointCost,
   GlobalCapacity |-> 10 * FreeCapacity, GlobalRefillRate |-> 10 * FreeRefillRate]

ColonRules ==
  [Rules EXCEPT !.Endpoints =
     (   "api" :> ColonPolicy("tiers+endpoints")
      @@ "v1:api" :> ColonPolicy("tiers+endpoints")
      @@ "global:api" :> ColonPolicy("endpoint") )]

Colons ==
       [key : {"u1:v1"}, endpoint : {"api"}, user_tier : {"free"}, ip_address : {""}]
  \cup [key : {"u1"}, endpoint : {"v1:api"}, user_tier : {"free"}, ip_address : {""}]
  \cup [key : {"u1"}, endpoint : {"global:api"}, user_tier : {""}, ip_address : {""}]

\* Every store key a request of Colons can name.
ColonKeys ==
  UNION { { bucketKey(GlobalKeyOf(r)), bucketKey(UserKeyOf(r)),
            bucketKey(IpKeyOf(r)), bucketKey(EndpointKeyOf(r)) } : r \in Colons }

InitColons ==
  /\ store = [a \in Addrs |-> [k \in ColonKeys |-> Absent]]
  /\ clock = 0
  /\ pc = [p \in Procs |-> "idle"]
  /\ call = [p \in Procs |-> NoCall]
  /\ nreq = 0
  /\ last = NoExec
  /\ hist = [k \in ColonKeys |-> NoHist]
  /\ nows = {}
  /\ reqs = Colons
  /\ rules = ColonRules
  /\ scripts = [i \in Instances |-> [n \in ScriptNames |-> ScriptInfo(n)]]
  /\ loaded = {Sha(ScriptFiles[n]) : n \in ScriptNames}

NextColons ==
  \/ \E p \in Procs : Send(p)
  \/ \E p \in Procs : EvalSha(p)

SpecColons == InitColons /\ [][NextColons]_vars

\* The encoding a script reads and writes at its i-th key: the dual script
\* user_* fields at KEYS[1] and global_* fields at KEYS[2], the single
\* script tokens and last_refill.
RoleOf(script, i) ==
  IF script = "tier_endpoint"
  THEN (IF i = 1 THEN "user" ELSE "global")
  ELSE "single"

\* A script has run for the last request.
HasRun == last # NoExec /\ last.script # "none"

\* C35: whatever the caller ids and the catalog names, every store key is
\* used in one role only (first key of the dual script, second key of the
\* dual script, key of the single script) and the two keys of a dual call
\* differ: a script never finds at one of its keys a value written in
\* another role's encoding.
C35_OneRolePerKey ==
  HasRun =>
    /\ last.reply # ScriptError
    /\ \A i \in DOMAIN last.KEYS :
         last.pre[i] # Absent => last.pre[i].kind = RoleOf(last.script, i)
    /\ last.script = "tier_endpoint" => last.KEYS[1] # last.KEYS[2]
    /\ \A k \in DOMAIN hist : \A a \in Addrs :
         (k \in {last.KEYS[i] : i \in DOMAIN last.KEYS} /\ store[a][k] # Absent) =>
           store[a][k].kind = RoleOf(last.script, CHOOSE i \in DOMAIN last.KEYS : last.KEYS[i] = k)

\* The single script ran on the endpoint named global:api after the dual
\* script had written the global bucket of the endpoint api.
C35_Witness ==
  /\ IsSingle
  /\ last.req.endpoint = "global:api"
  /\ store[StoreAddr][bucketKey(GlobalKeyOf([endpoint |-> "api"]))] # Absent
  /\ store[StoreAddr][bucketKey(EndpointKeyOf(last.req))].kind = "single"

\* The fields that scope the first bucket of a dual call to its caller:
\* caller key, endpoint and tier under tiers+endpoints, IP address and
\* endpoint under IP+endpoints.
ScopeOf(c) ==
  IF c.rule = "tiers+endpoints"
  THEN <<"user", c.req.key, c.req.endpoint, c.req.user_tier>>
  ELSE <<"ip", c.req.ip_address, c.req.endpoint>>

\* C36: two valid requests that differ in (caller key, endpoint, tier) under
\* tiers+endpoints, or in (ip_address, endpoint) under IP+endpoints, never
\* address the same scoped store key: the call of one caller that is on its
\* way to the store never names the scoped key the last decision, made for
\* another caller, has debited.
C36_CallerIsolation ==
  IsDual =>
    \A p \in Procs :
      (pc[p] = "exec" /\ call[p].script = "tier_endpoint"
         /\ ScopeOf(call[p]) # ScopeOf(last)) =>
        call[p].KEYS[1] # last.KEYS[1]

\* The decision for caller u1 on endpoint v1:api found its scoped bucket
\* already debited: the only decision before it was the one for caller
\* u1:v1 on endpoint api.
C36_Witness ==
  /\ IsDual
  /\ last.req.key = "u1" /\ last.req.endpoint = "v1:api"
  /\ last.prev[1].n = 1
  /\ last.prev[2].n = 0
  /\ last.pre[1] # Absent
  /\ last.pre[1].tokens < last.policy.userCap * Scale

\* ------------------------------------------------- repeated denials
\*
\* Two callers whose requests are denied again and again: the second caller
\* of the endpoint tight, whose global bucket the first caller has emptied,
\* and the caller of the endpoint list of the slow catalog, whose first
\* request takes the whole bucket.

InitRepeat ==
  /\ store = [a \in Addrs |->
                StoreAfter(StoreAfter([k \in AllKeys |-> Absent], FirstCaller, 0),
                           SecondCaller, 0)]
  /\ clock = 0
  /\ pc = [p \in Procs |-> "idle"]
  /\ call = [p \in Procs |-> NoCall]
  /\ nreq = 0
  /\ last = NoExec
  /\ hist = [k \in AllKeys |-> NoHist]
  /\ nows = {}
  /\ reqs = {SecondCaller, SlowCaller}
  /\ rules = SlowRules
  /\ scripts = [i \in Instances |-> [n \in ScriptNames |-> ScriptInfo(n)]]
  /\ loaded = {Sha(ScriptFiles[n]) : n \in ScriptNames}

NextRepeat ==
  \/ Wait
  \/ \E p \in Procs : Send(p)
  \/ \E p \in Procs : EvalSha(p)

SpecRepeat == InitRepeat /\ [][NextRepeat]_vars

\* The execution e ended in a denial.
Denied(e) == e # NoExec /\ e.script # "none" /\ e.reply # ScriptError /\ e.reply[1] = 0

\* C37: a denied decision is idempotent on bucket state: the execution that
\* repeats a denied single- or dual-bucket decision with the same keys, the
\* same arguments and the same now_ms leaves tokens and last_refill of every
\* named bucket as the first denial left them, and replies the same denial
\* with the same remainders.
C37_DeniedIsIdempotent ==
  [][ ( /\ Denied(last)
        /\ hist' # hist
        /\ last'.script = last.script
        /\ last'.KEYS = last.KEYS
        /\ last'.ARGV = last.ARGV ) =>
        /\ last'.reply = last.reply
        /\ \A i \in DOMAIN last.KEYS :
             /\ store'[StoreAddr][last.KEYS[i]].tokens = store[StoreAddr][last.KEYS[i]].tokens
             /\ store'[StoreAddr][last.KEYS[i]].last_refill
                  = store[StoreAddr][last.KEYS[i]].last_refill ]_vars

\* A single-bucket denial that repeats, at the same now_ms, a denial that
\* had refilled the bucket and dated it at that now_ms.
C37_Witness ==
  /\ IsSingle
  /\ Denied(last)
  /\ last.now > 0
  /\ last.prev[1].n >= 2
  /\ last.pre[1] # Absent
  /\ last.pre[1].last_refill = last.now
  /\ last.pre[1].tokens > 0
  /\ store[StoreAddr][last.KEYS[1]].tokens = last.pre[1].tokens
  /\ store[StoreAddr][last.KEYS[1]].last_refill = last.now

\* ------------------------------------------------ in-process TokenBucket
\*
\* package ratelimit: one TokenBucket in the memory of the process, shared
\* by the goroutines that call Allow.  Tokens are whole (int64), time.Now()
\* is the clock in milliseconds.  The bucket is kept in store under the
\* address Heap, the goroutines are the handlers of Procs: "wait" is a
\* goroutine blocked in mutex.Lock, "held" one that holds the mutex.

MsPerSecond == 1000
Heap == "heap"
TbKey == "tb"
TbCapacity == 10 * FreeCapacity
TbRefillRate == 2 * FreeRefillRate + 1
TbCost == 2 * FreeCapacity + EndpointCost

\* NewTokenBucket: a full bucket dated at the time of its construction.
NewTokenBucket(capacity, refillRate, now) ==
  [kind |-> "memory", capacity |-> capacity, tokens |-> capacity,
   refillRate |-> refillRate, lastRefill |-> now]

\* int64(delta * float64(refillRate)) with delta = now.Sub(lastRefill).Seconds().
Added(tb, now) == ((now - tb.lastRefill) * tb.refillRate) \div MsPerSecond

\* TokenBucket.Allow, the refill: the bucket after the lines that follow
\* time.Now().
TbRefill(tb, now) ==
  IF tb.tokens < tb.capacity /\ Added(tb, now) > 0
  THEN [tb EXCEPT !.tokens = Min(tb.capacity, tb.tokens + Added(tb, now)),
                  !.lastRefill = now]
  ELSE tb

\* TokenBucket.Allow, the body under the mutex: the bucket after the call
\* and the two values returned.
Allow(tb, cost, now) ==
  LET r == TbRefill(tb, now)
  IN  IF cost <= r.tokens
      THEN [tb |-> [r EXCEPT !.tokens = r.tokens - cost],
            allowed |-> TRUE, remaining |-> r.tokens - cost]
      ELSE [tb |-> r, allowed |-> FALSE, remaining |-> r.tokens]

\* What has been credited to the bucket so far, and whether a call found it
\* full after time had passed or filled it to its capacity.
NoCredit == [n |-> 0, credited |-> 0, full |-> FALSE]

InitBucket ==
  /\ store = [a \in {Heap} |-> [k \in {TbKey} |-> NewTokenBucket(TbCapacity, TbRefillRate, 0)]]
  /\ clock = 0
  /\ pc = [p \in Procs |-> "idle"]
  /\ call = [p \in Procs |-> NoCall]
  /\ nreq = 0
  /\ last = NoExec
  /\ hist = [k \in {TbKey} |-> NoCredit]
  /\ nows = {}
  /\ reqs = {}
  /\ rules = Rules
  /\ scripts = [i \in Instances |-> [n \in ScriptNames |-> ScriptInfo(n)]]
  /\ loaded = {Sha(ScriptFiles[n]) : n \in ScriptNames}

\* A goroutine calls Allow and arrives at mutex.Lock.
TbCall(p) ==
  /\ pc[p] = "idle"
  /\ nreq < MaxRequests
  /\ pc' = [pc EXCEPT ![p] = "wait"]
  /\ call' = [call EXCEPT ![p] = [script |-> "Allow", cost |-> TbCost]]
  /\ nreq' = nreq + 1
  /\ UNCHANGED <<store, clock, last, hist, nows, reqs, rules, scripts, loaded>>

\* mutex.Lock returns in a goroutine when no other holds the mutex; the
\* goroutine reads time.Now().
TbLock(p) ==
  /\ pc[p] = "wait"
  /\ \A q \in Procs : pc[q] # "held"
  /\ pc' = [pc EXCEPT ![p] = "held"]
  /\ call' = [call EXCEPT ![p] = [script |-> "Allow", cost |-> call[p].cost, now |-> clock]]
  /\ UNCHANGED <<store, clock, nreq, last, hist, nows, reqs, rules, scripts, loaded>>

\* The rest of Allow and the deferred mutex.Unlock.
TbUnlock(p) ==
  /\ pc[p] = "held"
  /\ LET tb == store[Heap][TbKey]
         c == call[p]
         out == Allow(tb, c.cost, c.now)
         r == TbRefill(tb, c.now)
     IN  /\ store' = [store EXCEPT ![Heap][TbKey] = out.tb]
         /\ last' = [script |-> "Allow", proc |-> p, cost |-> c.cost, now |-> c.now,
                     pre |-> tb, allowed |-> out.allowed, remaining |-> out.remaining]
         /\ hist' = [hist EXCEPT ![TbKey] =
                       [n |-> @.n + 1,
                        credited |-> @.credited + (r.tokens - tb.tokens),
                        full |-> \/ @.full
                                 \/ tb.tokens >= tb.capacity /\ c.now > tb.lastRefill
                                 \/ tb.tokens + Added(tb, c.now) > tb.capacity]]
         /\ nows' = nows \cup {c.now}
  /\ pc' = [pc EXCEPT ![p] = "idle"]
  /\ call' = [call EXCEPT ![p] = NoCall]
  /\ UNCHANGED <<clock, nreq, reqs, rules, scripts, loaded>>

NextBucket ==
  \/ Tick
  \/ \E p \in Procs : TbCall(p)
  \/ \E p \in Procs : TbLock(p)
  \/ \E p \in Procs : TbUnlock(p)

SpecBucket == InitBucket /\ [][NextBucket]_vars

\* Allow has returned at least once.
HasAllowed == last # NoExec /\ last.script = "Allow"

\* C38: Allow keeps 0 <= tokens <= capacity under concurrent callers and
\* credits refill without loss: as long as the bucket has stayed below its
\* capacity, the tokens credited up to a call at elapsed time D since the
\* construction are floor(D * refillRate), however often Allow was called.
C38_CreditsWithoutLoss ==
  /\ store[Heap][TbKey].tokens >= 0
  /\ store[Heap][TbKey].tokens <= store[Heap][TbKey].capacity
  /\ (HasAllowed /\ ~hist[TbKey].full) =>
       hist[TbKey].credited = (last.now * TbRefillRate) \div MsPerSecond

\* Allow has credited tokens in two calls, the bucket below its capacity
\* all the time, while another goroutine waits for the mutex.
C38_Witness ==
  /\ HasAllowed
  /\ ~hist[TbKey].full
  /\ hist[TbKey].n = 3
  /\ hist[TbKey].credited = 2 * ((TickMs * TbRefillRate) \div MsPerSecond)
  /\ last.now = 2 * TickMs
  /\ last.pre.lastRefill = TickMs

\* ------------------------------------------------------- RedisBucket path
\*
\* The handler that builds a RedisBucket for every request and calls its
\* Allow: the mutex Allow locks belongs to the RedisBucket just built, so
\* Lock returns at once in every request; the bucket state is read from the
\* store, changed in the handler and written back.  GetBucketState and
\* SetBucketState are the store's GET and SET of the state under the key.

RbCapacity == FreeCapacity
RbRefillRate == FreeRefillRate
RbCallers == [key : {"u1"}, endpoint : {"test"}, cost : {EndpointCost}]

\* Line 40: the bucket key of a request.
RbKeyOf(req) == req.key \o ":" \o req.endpoint
RbKeys == {RbKeyOf(r) : r \in RbCallers}

\* GetBucketState: the state stored under the key, nil when there is none.
GetBucketState(st, key) == st[key]

\* SetBucketState: the state stored under the key, with the ttl.
SetBucketState(st, key, state, ttl) ==
  [st EXCEPT ![key] = [kind |-> "state", Tokens |-> state.Tokens,
                       LastRefill |-> state.LastRefill, Capacity |-> state.Capacity,
                       RefillRate |-> state.RefillRate, ex |-> ttl]]

\* RedisBucket.Allow between GetBucketState and SetBucketState: the state
\* to write and the decision.
RbAllow(read, capacity, refillRate, cost, now) ==
  LET state == IF read = Absent
               THEN [Tokens |-> capacity, LastRefill |-> now,
                     Capacity |-> capacity, RefillRate |-> refillRate]
               ELSE [Tokens |-> read.Tokens, LastRefill |-> read.LastRefill,
                     Capacity |-> read.Capacity, RefillRate |-> read.RefillRate]
      tokensToAdd == ((now - state.LastRefill) * state.RefillRate) \div MsPerSecond
      refilled == IF state.Tokens < state.Capacity /\ tokensToAdd > 0
                  THEN [state EXCEPT !.Tokens = Min(state.Capacity, state.Tokens + tokensToAdd),
                                     !.LastRefill = now]
                  ELSE state
      allowed == cost <= refilled.Tokens
  IN  [state |-> IF allowed THEN [refilled EXCEPT !.Tokens = refilled.Tokens - cost]
                 ELSE refilled,
       allowed |-> allowed]

NoAllowed == [n |-> 0, allowed |-> 0]

InitRedisBucket ==
  /\ store = [a \in Addrs |-> [k \in RbKeys |-> Absent]]
  /\ clock = 0
  /\ pc = [p \in Procs |-> "idle"]
  /\ call = [p \in Procs |-> NoCall]
  /\ nreq = 0
  /\ last = NoExec
  /\ hist = [k \in RbKeys |-> NoAllowed]
  /\ nows = {}
  /\ reqs = RbCallers
  /\ rules = Rules
  /\ scripts = [i \in Instances |-> [n \in ScriptNames |-> ScriptInfo(n)]]
  /\ loaded = {Sha(ScriptFiles[n]) : n \in ScriptNames}

\* CheckHandler lines 32-45 and Allow lines 366-376: the handler binds the
\* request, builds the RedisBucket, locks its mutex, reads the state from
\* the store and reads the clock.
RbGet(p) ==
  /\ pc[p] = "idle"
  /\ nreq < MaxRequests
  /\ \E req \in reqs :
       call' = [call EXCEPT ![p] =
                  [script |-> "RedisBucket", req |-> req, key |-> RbKeyOf(req),
                   state |-> GetBucketState(store[ConnAddr(InstanceOf(p))], RbKeyOf(req)),
                   now |-> clock]]
  /\ pc' = [pc EXCEPT ![p] = "read"]
  /\ nreq' = nreq + 1
  /\ UNCHANGED <<store, clock, last, hist, nows, reqs, rules, scripts, loaded>>

\* Allow lines 378-410: refill, debit, write the state back and return.
RbSet(p) ==
  /\ pc[p] = "read"
  /\ LET c == call[p]
         addr == ConnAddr(InstanceOf(p))
         out == RbAllow(c.state, RbCapacity, RbRefillRate, c.req.cost, c.now)
     IN  /\ store' = [store EXCEPT ![addr] =
                        SetBucketState(store[addr], c.key, out.state, TtlSeconds)]
         /\ last' = [script |-> "RedisBucket", proc |-> p, req |-> c.req, key |-> c.key,
                     now |-> c.now, read |-> c.state, found |-> store[addr][c.key],
                     allowed |-> out.allowed, remaining |-> out.state.Tokens]
         /\ hist' = [hist EXCEPT ![c.key] =
                       [n |-> @.n + 1, allowed |-> @.allowed + (IF out.allowed THEN 1 ELSE 0)]]
         /\ nows' = nows \cup {c.now}
  /\ pc' = [pc EXCEPT ![p] = "idle"]
  /\ call' = [call EXCEPT ![p] = NoCall]
  /\ UNCHANGED <<clock, nreq, reqs, rules, scripts, loaded>>

NextRedisBucket ==
  \/ Tick
  \/ \E p \in Procs : RbGet(p)
  \/ \E p \in Procs : RbSet(p)

SpecRedisBucket == InitRedisBucket /\ [][NextRedisBucket]_vars

\* C39: in the RedisBucket path concurrent Allow calls for one bucket key
\* are mutually exclusive: from a full bucket and with no time elapsed the
\* number of allowed calls never exceeds floor(capacity / cost), and no
\* update is lost: every Allow writes back what it computed from the state
\* the store held at the time of the write.
C39_AllowIsExclusive ==
  (last # NoExec /\ last.script = "RedisBucket" /\ nows = {0}) =>
    /\ hist[last.key].allowed <= RbCapacity \div last.req.cost
    /\ last.read = last.found

\* Two handlers read the full bucket before either wrote it back; both
\* calls were allowed and the second write replaced the first.
C39_Witness ==
  /\ last # NoExec /\ last.script = "RedisBucket"
  /\ nows = {0}
  /\ last.read = Absent
  /\ last.found # Absent
  /\ last.allowed
  /\ hist[last.key].allowed = 2
  /\ store[StoreAddr][last.key].Tokens = RbCapacity - last.req.cost

=============================================================================
